---- MODULE Spec2Model ----
(***************************************************************************)
(* Model of the nAuth encrypted vault: VaultService (vault.service.ts),    *)
(* EncryptionService (encryption.service.ts) and StorageService.           *)
(* Every async method is a task that advances from one await to the next;  *)
(* the code between two awaits is one atomic step.                         *)
(***************************************************************************)
EXTENDS Integers, Sequences, FiniteSets, TLC

(* ------------------------------ bounds -------------------------------- *)
MaxTasks == 2
MaxAccounts == 2
MaxTime == 1
MaxCalls == 3

(* ----------------------------- constants ------------------------------ *)
VAULT_KEY == "vault"
VAULT_VERSION == "1.0.0"
\* the storage keys of BiometricService (account.service.ts lines 157-158)
BIOMETRIC_KEY_STORAGE == "biometric_enabled"
SESSION_KEY_STORAGE == "encrypted_session_key"
StorageKeys == {VAULT_KEY, BIOMETRIC_KEY_STORAGE, SESSION_KEY_STORAGE}

NULL == "NULL"
UNDEFINED == "UNDEFINED"

Passwords == {"", "p1", "p2"}
Salts == {1}
IVs == {1}
TaskIds == 1..MaxTasks

(* ------------------------- strings and JSON --------------------------- *)
\* A JavaScript string value is a record: the JSON text of a value, a raw
\* string, or text that is not JSON.
Str(s) == [kind |-> "str", s |-> s]
JSONstringify(v) == [kind |-> "json", val |-> v]
JSONparses(x) == x.kind = "json"
JSONparse(x) == x.val
NotJSON == [kind |-> "garbage"]
IsEmptyString(x) == x.kind = "str" /\ x.s = ""

\* JavaScript truthiness of string | null
Falsy(s) == s = NULL \/ s = ""

(* --------------------------- EncryptionService ------------------------ *)
arrayBufferToBase64(bytes) == [kind |-> "b64", of |-> bytes]
base64Valid(x) == x.kind = "b64"
base64ToUint8Array(x) == x.of

\* PBKDF2 is a deterministic function of (password, salt), taken to be
\* collision free.
deriveKey(password, salt) == [pw |-> password, salt |-> salt]

\* AES-256-CBC with PKCS7 padding, as a symbolic term.
AESencrypt(data, key, iv) == [key |-> key, iv |-> iv, pt |-> data, flip |-> 0]
HmacSHA256(ciphertext, key) == [kind |-> "hex", ct |-> ciphertext, key |-> key]

\* encrypt(data, password, salt, iv), lines 84-105 (after the key arrived)
encrypt(data, password, salt, iv) ==
  LET key == deriveKey(password, salt)
      ct  == AESencrypt(data, key, iv)
  IN  [encrypted |-> arrayBufferToBase64(ct),
       salt      |-> arrayBufferToBase64(salt),
       iv        |-> arrayBufferToBase64(iv),
       hmac      |-> HmacSHA256(ct, key)]

\* The outcomes of decrypt(encryptedData, password, salt, iv, hmac): a set,
\* because a cipher decryption with a wrong key or iv yields bytes that may
\* or may not decode as UTF-8.
DecryptOK(text) == [ok |-> TRUE, text |-> text]
DecryptErr(e) == [ok |-> FALSE, err |-> e]
GarbageText == [kind |-> "garbage"]
\* CryptoJS.enc.Base64.parse does not reject text that is not base64: it
\* yields bytes that are no ciphertext anyone produced
GarbageBytes ==
  [key |-> [pw |-> "none", salt |-> 0], iv |-> 0, pt |-> GarbageText,
   flip |-> 1]
Base64parse(x) == IF base64Valid(x) THEN base64ToUint8Array(x) ELSE GarbageBytes

\* decrypt as it would be without the comparison of lines 129-135
decrypt_NoHmacCheck(encryptedData, password, salt, iv, hmac) ==
  IF ~base64Valid(salt) \/ ~base64Valid(iv)
  THEN {DecryptErr("InvalidCharacterError")}
  ELSE
    LET key == deriveKey(password, base64ToUint8Array(salt))
        ciphertext == Base64parse(encryptedData)
    IN  IF ciphertext.key = key /\ ciphertext.iv = base64ToUint8Array(iv)
             /\ ciphertext.flip = 0
        THEN IF IsEmptyString(ciphertext.pt)
             THEN {DecryptErr("Decryption failed")}
             ELSE {DecryptOK(ciphertext.pt)}
        ELSE {DecryptErr("Decryption failed"), DecryptOK(GarbageText)}

\* decrypt as it would be if the comparison of lines 129-135 covered the iv
decrypt_IvCovered(encryptedData, password, salt, iv, hmac) ==
  IF ~base64Valid(salt) \/ ~base64Valid(iv)
  THEN {DecryptErr("InvalidCharacterError")}
  ELSE
    LET key == deriveKey(password, base64ToUint8Array(salt))
        ciphertext == Base64parse(encryptedData)
    IN  IF \/ HmacSHA256(ciphertext, key) # hmac
           \/ ciphertext.iv # base64ToUint8Array(iv)
        THEN {DecryptErr("Data integrity check failed")}
        ELSE IF ciphertext.key = key /\ ciphertext.flip = 0
             THEN IF IsEmptyString(ciphertext.pt)
                  THEN {DecryptErr("Decryption failed")}
                  ELSE {DecryptOK(ciphertext.pt)}
             ELSE {DecryptErr("Decryption failed"), DecryptOK(GarbageText)}

\* lines 119-154: atob throws on a salt or iv that is not base64; the HMAC
\* over the ciphertext is compared before the cipher is run; an empty
\* decrypted string is taken for a failure
decrypt(encryptedData, password, salt, iv, hmac) ==
  IF ~base64Valid(salt) \/ ~base64Valid(iv)
  THEN {DecryptErr("InvalidCharacterError")}
  ELSE
    LET key == deriveKey(password, base64ToUint8Array(salt))
        ciphertext == Base64parse(encryptedData)
    IN  IF HmacSHA256(ciphertext, key) # hmac
        THEN {DecryptErr("Data integrity check failed")}
        ELSE IF ciphertext.key = key /\ ciphertext.iv = base64ToUint8Array(iv)
                    /\ ciphertext.flip = 0
             THEN IF IsEmptyString(ciphertext.pt)
                  THEN {DecryptErr("Decryption failed")}
                  ELSE {DecryptOK(ciphertext.pt)}
             ELSE {DecryptErr("Decryption failed"), DecryptOK(GarbageText)}

(* ------------------------------- state -------------------------------- *)
\* masterPassword, accounts, isUnlocked: the static fields of VaultService;
\* storage: the key-value store; now: the clock; tasks: the pending calls;
\* last: the outcome of the call that completed last; issued: the number of
\* calls the client has issued in an overlapping run
VARIABLES masterPassword, accounts, isUnlocked, storage, now, tasks, last,
          issued

vars == <<masterPassword, accounts, isUnlocked, storage, now, tasks, last,
          issued>>
runtime == <<masterPassword, accounts, isUnlocked>>

Absent == [kind |-> "absent"]
Idle == [pc |-> "idle"]

\* StorageService.getItem / setItem / removeItem (localStorage path)
getItem(key) == storage[key]
IsNullItem(v) == v.kind = "absent"
setItem(key, value) == [storage EXCEPT ![key] = value]
removeItem(key) == [storage EXCEPT ![key] = Absent]
\* !vaultData : null or the empty string
FalsyItem(v) == IsNullItem(v) \/ IsEmptyString(v)

Init ==
  /\ masterPassword = NULL
  /\ accounts = <<>>
  /\ isUnlocked = FALSE
  /\ storage = [k \in StorageKeys |-> Absent]
  /\ now = 1
  /\ tasks = [t \in TaskIds |-> Idle]
  /\ last = [op |-> "none", args |-> [none |-> TRUE]]
  /\ issued = 0

(* --------------------------- task bookkeeping ------------------------- *)
InFlight == {t \in TaskIds : tasks[t].pc # "idle"}
\* a new call takes the lowest free slot; limit is the number of calls that
\* may overlap
Quiet(limit) == Cardinality(InFlight) < limit
\* where calls overlap (limit > 1) the calls issued are counted, MaxCalls
\* at most
FreeSlot(t, limit) ==
  /\ Quiet(limit)
  /\ tasks[t].pc = "idle"
  /\ \A u \in TaskIds : u < t => tasks[u].pc # "idle"
  /\ IF limit > 1 THEN issued < MaxCalls /\ issued' = issued + 1
     ELSE UNCHANGED issued

\* the outcome of the call that completed last: the call frame (operation
\* and arguments), and what it returned or threw
NoArgs == [none |-> TRUE]
Call(op, args) == [op |-> op, args |-> args]
Returned(frame, v) ==
  [op |-> frame.op, args |-> frame.args, status |-> "return", value |-> v]
Threw(frame, msg) ==
  [op |-> frame.op, args |-> frame.args, status |-> "throw", value |-> msg]

\* how a rejected call is reported: importVault catches everything inside
\* its try block and throws one generic error (lines 291-294)
IMPORT_ERROR == "Failed to import vault. Check password and data integrity."
\* how it would be reported without the catch of importVault
ThrowOut_NoCatch(frame, msg) == Threw(frame, msg)

ThrowOut(frame, msg) ==
  IF frame.op = "importVault" THEN Threw(frame, IMPORT_ERROR)
  ELSE Threw(frame, msg)

(* ------------------------------ saveVault ----------------------------- *)
\* The synchronous head of saveVault (lines 97-105), run inside the step of
\* its caller with the runtime state (unl, mp, accs) the caller has just
\* set: the locked check, the serialization of the whole list, the random
\* salt and iv, and the suspension on key derivation.
CallSaveVault(t, frame, unl, mp, accs) ==
  IF ~unl \/ Falsy(mp)
  THEN /\ tasks' = [tasks EXCEPT ![t] = Idle]
       /\ last' = ThrowOut(frame, "Vault is locked")
  ELSE /\ \E salt \in Salts, iv \in IVs :
            tasks' = [tasks EXCEPT ![t] =
                        [pc |-> "derive", data |-> JSONstringify(accs),
                         pw |-> mp, salt |-> salt, iv |-> iv] @@ frame]
       /\ UNCHANGED last

\* the EncryptedVault record of lines 108-114
EncryptedVault(e) ==
  [version |-> VAULT_VERSION, salt |-> e.salt, iv |-> e.iv,
   data |-> e.encrypted, hmac |-> e.hmac]

SavingOps == {"createVault", "saveVault", "addAccount", "updateAccount",
              "deleteAccount", "changeMasterPassword", "importVault",
              "addManual", "addFromURI", "incrementHOTPCounter"}

\* saveVault as it would be if it patched the stored record in place: the
\* new ciphertext is written into the old record, whose salt, iv and hmac
\* stay
SaveVaultEncrypted_Patch(t) ==
  /\ tasks[t].pc = "derive"
  /\ tasks[t].op \in SavingOps
  /\ LET e == encrypt(tasks[t].data, tasks[t].pw, tasks[t].salt, tasks[t].iv)
         old == getItem(VAULT_KEY)
     IN  storage' = IF IsNullItem(old)
                    THEN setItem(VAULT_KEY, JSONstringify(EncryptedVault(e)))
                    ELSE setItem(VAULT_KEY,
                                 JSONstringify([JSONparse(old) EXCEPT
                                                  !.data = e.encrypted]))
  /\ tasks' = [tasks EXCEPT ![t].pc = "setItem"]
  /\ UNCHANGED <<masterPassword, accounts, isUnlocked, now, last>>
  /\ UNCHANGED issued

\* The key has been derived: encrypt, build the record and call setItem,
\* which writes before it suspends (lines 105-117).
SaveVaultEncrypted(t) ==
  /\ tasks[t].pc = "derive"
  /\ tasks[t].op \in SavingOps
  /\ LET e == encrypt(tasks[t].data, tasks[t].pw, tasks[t].salt, tasks[t].iv)
     IN  storage' = setItem(VAULT_KEY, JSONstringify(EncryptedVault(e)))
  /\ tasks' = [tasks EXCEPT ![t].pc = "setItem"]
  /\ UNCHANGED <<masterPassword, accounts, isUnlocked, now, last>>
  /\ UNCHANGED issued

\* StorageService.setItem on Electron (part_002 lines 241-250): the value
\* goes to the main process, whose handler (electron/main.ts lines 70-90)
\* answers true when it has stored the value and false when it has not;
\* setItem does not look at the answer.
IpcSetResults == BOOLEAN

\* saveVault on Electron: as SaveVaultEncrypted, with the answer of the
\* main process
SaveVaultEncryptedElectron(t) ==
  /\ tasks[t].pc = "derive"
  /\ tasks[t].op \in SavingOps
  /\ \E stored \in IpcSetResults :
       LET e == encrypt(tasks[t].data, tasks[t].pw, tasks[t].salt, tasks[t].iv)
       IN  storage' = IF stored
                      THEN setItem(VAULT_KEY, JSONstringify(EncryptedVault(e)))
                      ELSE storage
  /\ tasks' = [tasks EXCEPT ![t].pc = "setItem"]
  /\ UNCHANGED <<masterPassword, accounts, isUnlocked, now, last>>
  /\ UNCHANGED issued

\* a failed save as it would be if the caller undid its work by locking the
\* vault before passing the error on
SaveVaultSetItemThrows_Lock(t) ==
  /\ tasks[t].pc = "derive"
  /\ tasks[t].op \in SavingOps
  /\ tasks' = [tasks EXCEPT ![t] = Idle]
  /\ last' = ThrowOut(Call(tasks[t].op, tasks[t].args), "QuotaExceededError")
  /\ accounts' = <<>>
  /\ isUnlocked' = FALSE
  /\ masterPassword' = NULL
  /\ UNCHANGED <<storage, now>>
  /\ UNCHANGED issued

\* saveVault where localStorage.setItem throws (the store is full): setItem
\* (part_002 lines 232-258) has no catch on the localStorage path, so the
\* promise of saveVault is rejected with the error and nothing is written
SaveVaultSetItemThrows(t) ==
  /\ tasks[t].pc = "derive"
  /\ tasks[t].op \in SavingOps
  /\ tasks' = [tasks EXCEPT ![t] = Idle]
  /\ last' = ThrowOut(Call(tasks[t].op, tasks[t].args), "QuotaExceededError")
  /\ UNCHANGED <<masterPassword, accounts, isUnlocked, storage, now>>
  /\ UNCHANGED issued

(* ----------------------------- synchronous ---------------------------- *)
\* lockVault (lines 82-91)
lockVault(limit) ==
  /\ Quiet(limit)
  /\ accounts' = <<>>
  /\ isUnlocked' = FALSE
  /\ masterPassword' = IF ~Falsy(masterPassword) THEN NULL ELSE masterPassword
  /\ last' = Returned(Call("lockVault", NoArgs), "void")
  /\ UNCHANGED <<storage, now, tasks>>
  /\ UNCHANGED issued

\* getAccounts (lines 123-128)
getAccountsResult ==
  IF ~isUnlocked THEN Threw(Call("getAccounts", NoArgs), "Vault is locked")
  ELSE Returned(Call("getAccounts", NoArgs), accounts)

getAccounts(limit) ==
  /\ Quiet(limit)
  /\ last' = getAccountsResult
  /\ UNCHANGED <<masterPassword, accounts, isUnlocked, storage, now, tasks>>
  /\ UNCHANGED issued

\* getMasterPassword (lines 133-138)
getMasterPassword(limit) ==
  /\ Quiet(limit)
  /\ last' = IF ~isUnlocked
             THEN Returned(Call("getMasterPassword", NoArgs), NULL)
             ELSE Returned(Call("getMasterPassword", NoArgs), masterPassword)
  /\ UNCHANGED <<masterPassword, accounts, isUnlocked, storage, now, tasks>>
  /\ UNCHANGED issued

\* ids a caller can name: those in the list and one that no account has
NoSuchId == [ms |-> 0, rnd |-> 0]
IdInputs == {accounts[i].id : i \in 1..Len(accounts)} \cup {NoSuchId}

\* Array.prototype.findIndex(acc => acc.id === id); 0 stands for -1
findIndex(accs, id) ==
  IF \E i \in 1..Len(accs) : accs[i].id = id
  THEN CHOOSE i \in 1..Len(accs) :
         accs[i].id = id /\ \A j \in 1..(i-1) : accs[j].id # id
  ELSE 0

\* getAccount (lines 143-148); the result is <<account>> or <<>> (undefined)
getAccount(limit) ==
  /\ Quiet(limit)
  /\ \E id \in IdInputs :
       LET frame == Call("getAccount", [id |-> id])
       IN  last' = IF ~isUnlocked THEN Threw(frame, "Vault is locked")
                   ELSE LET i == findIndex(accounts, id)
                        IN  Returned(frame,
                                     IF i = 0 THEN <<>> ELSE <<accounts[i]>>)
  /\ UNCHANGED <<masterPassword, accounts, isUnlocked, storage, now, tasks>>
  /\ UNCHANGED issued

(* ----------------------------- createVault ---------------------------- *)
\* createVault calls initialize, which reads storage and suspends
\* (lines 31, 22-25)
createVaultStart(t, limit) ==
  /\ FreeSlot(t, limit)
  /\ \E pw \in Passwords :
       tasks' = [tasks EXCEPT ![t] =
                   [pc |-> "initialize",
                    exists |-> ~IsNullItem(getItem(VAULT_KEY))]
                   @@ Call("createVault", [masterPassword |-> pw])]
  /\ UNCHANGED <<masterPassword, accounts, isUnlocked, storage, now, last>>

\* createVault as it would be without the check of lines 32-34: an existing
\* record is overwritten
createVaultInitialized_NoCheck(t) ==
  /\ tasks[t].pc = "initialize"
  /\ tasks[t].op = "createVault"
  /\ LET frame == Call("createVault", tasks[t].args)
     IN  /\ masterPassword' = frame.args.masterPassword
         /\ accounts' = <<>>
         /\ isUnlocked' = TRUE
         /\ CallSaveVault(t, frame, TRUE, frame.args.masterPassword, <<>>)
  /\ UNCHANGED <<storage, now>>
  /\ UNCHANGED issued

\* lines 31-43: the check, the three assignments and the head of saveVault
createVaultInitialized(t) ==
  /\ tasks[t].pc = "initialize"
  /\ tasks[t].op = "createVault"
  /\ LET frame == Call("createVault", tasks[t].args)
     IN  IF tasks[t].exists
         THEN /\ tasks' = [tasks EXCEPT ![t] = Idle]
              /\ last' = Threw(frame, "Vault already exists")
              /\ UNCHANGED <<masterPassword, accounts, isUnlocked>>
         ELSE /\ masterPassword' = frame.args.masterPassword
              /\ accounts' = <<>>
              /\ isUnlocked' = TRUE
              /\ CallSaveVault(t, frame, TRUE, frame.args.masterPassword, <<>>)
  /\ UNCHANGED <<storage, now>>
  /\ UNCHANGED issued

(* ----------------------------- unlockVault ---------------------------- *)
\* line 50: the read of the vault record, then the suspension
unlockVaultStart(t, limit) ==
  /\ FreeSlot(t, limit)
  /\ \E pw \in Passwords :
       tasks' = [tasks EXCEPT ![t] =
                   [pc |-> "getItem", vaultData |-> getItem(VAULT_KEY)]
                   @@ Call("unlockVault", [masterPassword |-> pw])]
  /\ UNCHANGED <<masterPassword, accounts, isUnlocked, storage, now, last>>

\* a parsed value that has the fields decrypt is called with
IsVaultRecord(v) ==
  {"salt", "iv", "data", "hmac"} \subseteq DOMAIN v

\* lines 51-65: no record throws; a record that does not parse, or that
\* decrypt cannot decode, is caught; otherwise decrypt suspends on the key
unlockVaultLoaded(t) ==
  /\ tasks[t].pc = "getItem"
  /\ tasks[t].op = "unlockVault"
  /\ LET vaultData == tasks[t].vaultData
         frame == Call("unlockVault", tasks[t].args)
     IN  IF FalsyItem(vaultData)
         THEN /\ tasks' = [tasks EXCEPT ![t] = Idle]
              /\ last' = Threw(frame, "Vault does not exist")
         ELSE IF ~JSONparses(vaultData)
         THEN /\ tasks' = [tasks EXCEPT ![t] = Idle]
              /\ last' = Returned(frame, FALSE)
         ELSE IF ~IsVaultRecord(JSONparse(vaultData))
         THEN /\ tasks' = [tasks EXCEPT ![t] = Idle]
              /\ last' = Returned(frame, FALSE)
         ELSE /\ tasks' = [tasks EXCEPT ![t] =
                             [pc |-> "derive", vault |-> JSONparse(vaultData)]
                             @@ frame]
              /\ UNCHANGED last
  /\ UNCHANGED <<masterPassword, accounts, isUnlocked, storage, now>>
  /\ UNCHANGED issued

\* unlockVault as it would be without the catch of lines 73-76: the error
\* of decrypt or of JSON.parse escapes
unlockVaultDecrypted_NoCatch(t) ==
  /\ tasks[t].pc = "derive"
  /\ tasks[t].op = "unlockVault"
  /\ LET v == tasks[t].vault
         frame == Call("unlockVault", tasks[t].args)
     IN  \E d \in decrypt(v.data, frame.args.masterPassword, v.salt, v.iv, v.hmac) :
           IF d.ok /\ JSONparses(d.text)
           THEN /\ accounts' = JSONparse(d.text)
                /\ masterPassword' = frame.args.masterPassword
                /\ isUnlocked' = TRUE
                /\ last' = Returned(frame, TRUE)
           ELSE /\ last' = Threw(frame, IF d.ok THEN "Unexpected token"
                                        ELSE d.err)
                /\ UNCHANGED <<masterPassword, accounts, isUnlocked>>
  /\ tasks' = [tasks EXCEPT ![t] = Idle]
  /\ UNCHANGED <<storage, now>>
  /\ UNCHANGED issued

\* lines 59-76: the integrity check, the decryption, the parse of the
\* account list and the three assignments, or the catch
unlockVaultDecrypted(t) ==
  /\ tasks[t].pc = "derive"
  /\ tasks[t].op = "unlockVault"
  /\ LET v == tasks[t].vault
         frame == Call("unlockVault", tasks[t].args)
     IN  \E d \in decrypt(v.data, frame.args.masterPassword, v.salt, v.iv, v.hmac) :
           IF d.ok /\ JSONparses(d.text)
           THEN /\ accounts' = JSONparse(d.text)
                /\ masterPassword' = frame.args.masterPassword
                /\ isUnlocked' = TRUE
                /\ last' = Returned(frame, TRUE)
           ELSE /\ last' = Returned(frame, FALSE)
                /\ UNCHANGED <<masterPassword, accounts, isUnlocked>>
  /\ tasks' = [tasks EXCEPT ![t] = Idle]
  /\ UNCHANGED <<storage, now>>
  /\ UNCHANGED issued

(* ------------------------ account mutations --------------------------- *)
\* Omit<Account, 'id' | 'createdAt' | 'updatedAt'> values a caller passes
AccountInputs ==
  { [name |-> "alice@example.com", issuer |-> "GitHub",
     secret |-> "JBSWY3DPEHPK3PXP", type |-> "totp", algorithm |-> "SHA1",
     digits |-> 6, period |-> 30, counter |-> 0],
    [name |-> "bob", issuer |-> "GitHub",
     secret |-> "JBSWY3DPEHPK3PXP", type |-> "hotp", algorithm |-> "SHA1",
     digits |-> 6, period |-> 30, counter |-> 0] }

\* Partial<Account> values a caller passes to updateAccount
UpdateInputs == { [name |-> "carol"] }

\* Date.now(): the clock never runs backwards
Clock == now..MaxTime
\* Math.random().toString(36).substring(2, 11)
Rand == {1}

\* generateId (lines 336-338): `${Date.now()}-${Math.random()...}`
generateId(ms, rnd) == [ms |-> ms, rnd |-> rnd]

\* { ...a, ...b } : the fields of b override those of a
Spread(a, b) ==
  [k \in DOMAIN a \cup DOMAIN b |-> IF k \in DOMAIN b THEN b[k] ELSE a[k]]

\* the object literal of lines 158-163
NewAccount(account, tid, rnd, tc, tu) ==
  Spread(account, [id |-> generateId(tid, rnd), createdAt |-> tc,
                   updatedAt |-> tu])

\* addAccount as it would be without the check of lines 154-156: the
\* account is pushed before saveVault finds the vault locked
AddAccountBody_NoLockCheck(t, frame, account) ==
  /\ Len(accounts) < MaxAccounts
  /\ \E tid \in Clock, rnd \in Rand :
       \E tc \in tid..MaxTime :
         \E tu \in tc..MaxTime :
           LET newAccount == NewAccount(account, tid, rnd, tc, tu)
           IN  /\ accounts' = Append(accounts, newAccount)
               /\ now' = tu
               /\ CallSaveVault(t, Spread(frame, [newAccount |-> newAccount]),
                                isUnlocked, masterPassword,
                                Append(accounts, newAccount))
  /\ UNCHANGED <<masterPassword, isUnlocked, storage>>

\* the synchronous body of addAccount (lines 154-166) for the call in
\* frame: the locked check, the new account (three reads of the clock),
\* the push, the head of saveVault; rands are the values Math.random() may
\* take
AddAccountWith(t, frame, account, rands) ==
  IF ~isUnlocked
  THEN /\ tasks' = [tasks EXCEPT ![t] = Idle]
       /\ last' = ThrowOut(frame, "Vault is locked")
       /\ UNCHANGED <<masterPassword, accounts, isUnlocked, storage, now>>
  ELSE /\ Len(accounts) < MaxAccounts
       /\ \E tid \in Clock, rnd \in rands :
            \E tc \in tid..MaxTime :
              \E tu \in tc..MaxTime :
                LET newAccount == NewAccount(account, tid, rnd, tc, tu)
                IN  /\ accounts' = Append(accounts, newAccount)
                    /\ now' = tu
                    /\ CallSaveVault(t, Spread(frame, [newAccount |-> newAccount]),
                                     isUnlocked, masterPassword,
                                     Append(accounts, newAccount))
       /\ UNCHANGED <<masterPassword, isUnlocked, storage>>

AddAccountBody(t, frame, account) == AddAccountWith(t, frame, account, Rand)

addAccountStart(t, limit) ==
  /\ FreeSlot(t, limit)
  /\ \E account \in AccountInputs :
       AddAccountBody(t, Call("addAccount", [account |-> account]), account)

\* the synchronous body of updateAccount (lines 175-190) for the call in
\* frame
UpdateAccountWith(t, frame, id, updates) ==
  /\ IF ~isUnlocked
     THEN /\ last' = Threw(frame, "Vault is locked")
          /\ UNCHANGED <<accounts, now, tasks>>
     ELSE LET index == findIndex(accounts, id)
          IN  IF index = 0
              THEN /\ last' = Threw(frame, "Account not found")
                   /\ UNCHANGED <<accounts, now, tasks>>
              ELSE \E tu \in Clock :
                     LET accs == [accounts EXCEPT ![index] =
                                    Spread(Spread(accounts[index], updates),
                                           [updatedAt |-> tu])]
                     IN  /\ accounts' = accs
                         /\ now' = tu
                         /\ CallSaveVault(t, frame, isUnlocked,
                                          masterPassword, accs)
  /\ UNCHANGED <<masterPassword, isUnlocked, storage>>

\* updateAccount, called with one of the partials
updateAccountCall(t, limit, partials) ==
  /\ FreeSlot(t, limit)
  /\ \E id \in IdInputs, updates \in partials :
       UpdateAccountWith(t, Call("updateAccount",
                                 [id |-> id, updates |-> updates]),
                         id, updates)

updateAccountStart(t, limit) == updateAccountCall(t, limit, UpdateInputs)

\* Array.prototype.splice(index, 1)
splice(accs, index) ==
  [i \in 1..(Len(accs) - 1) |-> IF i < index THEN accs[i] ELSE accs[i + 1]]

\* deleteAccount as it would be without the check of lines 202-204:
\* splice(-1, 1) removes the last account of the list
deleteAccountStart_NoCheck(t, limit) ==
  /\ FreeSlot(t, limit)
  /\ \E id \in IdInputs :
       LET frame == Call("deleteAccount", [id |-> id])
       IN  IF ~isUnlocked
           THEN /\ last' = Threw(frame, "Vault is locked")
                /\ UNCHANGED <<accounts, tasks>>
           ELSE LET index == findIndex(accounts, id)
                    at == IF index = 0 THEN Len(accounts) ELSE index
                    rest == IF at = 0 THEN accounts ELSE splice(accounts, at)
                IN  /\ accounts' = rest
                    /\ CallSaveVault(t, frame, isUnlocked, masterPassword,
                                     rest)
  /\ UNCHANGED <<masterPassword, isUnlocked, storage, now>>

\* deleteAccount (lines 197-207)
deleteAccountStart(t, limit) ==
  /\ FreeSlot(t, limit)
  /\ \E id \in IdInputs :
       LET frame == Call("deleteAccount", [id |-> id])
       IN  IF ~isUnlocked
           THEN /\ last' = Threw(frame, "Vault is locked")
                /\ UNCHANGED <<accounts, tasks>>
           ELSE LET index == findIndex(accounts, id)
                IN  IF index = 0
                    THEN /\ last' = Threw(frame, "Account not found")
                         /\ UNCHANGED <<accounts, tasks>>
                    ELSE /\ accounts' = splice(accounts, index)
                         /\ CallSaveVault(t, frame, isUnlocked, masterPassword,
                                          splice(accounts, index))
  /\ UNCHANGED <<masterPassword, isUnlocked, storage, now>>

\* a direct call of saveVault (lines 96-118)
saveVaultStart(t, limit) ==
  /\ FreeSlot(t, limit)
  /\ CallSaveVault(t, Call("saveVault", NoArgs), isUnlocked, masterPassword,
                   accounts)
  /\ UNCHANGED <<masterPassword, accounts, isUnlocked, storage, now>>

\* changeMasterPassword (lines 301-313)
changeMasterPasswordStart(t, limit) ==
  /\ FreeSlot(t, limit)
  /\ \E currentPassword \in Passwords, newPassword \in Passwords :
       LET frame == Call("changeMasterPassword",
                         [currentPassword |-> currentPassword,
                          newPassword |-> newPassword])
       IN  IF ~isUnlocked
           THEN /\ last' = Threw(frame, "Vault is locked")
                /\ UNCHANGED <<masterPassword, tasks>>
           ELSE IF currentPassword # masterPassword
           THEN /\ last' = Returned(frame, FALSE)
                /\ UNCHANGED <<masterPassword, tasks>>
           ELSE /\ masterPassword' = newPassword
                /\ CallSaveVault(t, frame, isUnlocked, newPassword, accounts)
  /\ UNCHANGED <<accounts, isUnlocked, storage, now>>

(* ------------------------------ transfer ------------------------------ *)
\* createChecksum (lines 194-196): the first 8 hex digits of SHA-256
createChecksum(data) == [kind |-> "sha8", of |-> data]

\* the export object of lines 227-236
TransferPayload(data, e) ==
  JSONstringify([version |-> VAULT_VERSION, encryptedData |-> e.encrypted,
                 salt |-> e.salt, iv |-> e.iv, hmac |-> e.hmac,
                 checksum |-> createChecksum(data)])

TransferPasswordInputs == Passwords \cup {UNDEFINED}

\* line 218: transferPassword || this.masterPassword
ExportPassword(transferPassword, master) ==
  IF transferPassword = UNDEFINED \/ Falsy(transferPassword)
  THEN master ELSE transferPassword

\* lines 218-236: what exportVault(transferPassword) returns in a vault that
\* holds accs under the master password master
ExportOf(accs, transferPassword, master, salt, iv) ==
  LET data == JSONstringify(accs)
  IN  TransferPayload(data, encrypt(data, ExportPassword(transferPassword,
                                                         master), salt, iv))

\* exportVault (lines 214-222): transferPassword || this.masterPassword
exportVaultStart(t, limit) ==
  /\ FreeSlot(t, limit)
  /\ \E transferPassword \in TransferPasswordInputs :
       LET frame == Call("exportVault", [transferPassword |-> transferPassword])
       IN  IF ~isUnlocked \/ Falsy(masterPassword)
           THEN /\ last' = Threw(frame, "Vault is locked")
                /\ UNCHANGED tasks
           ELSE LET password == ExportPassword(transferPassword,
                                                    masterPassword)
                IN  /\ \E salt \in Salts, iv \in IVs :
                         tasks' = [tasks EXCEPT ![t] =
                                     [pc |-> "derive",
                                      data |-> JSONstringify(accounts),
                                      pw |-> password, salt |-> salt,
                                      iv |-> iv] @@ frame]
                    /\ UNCHANGED last
  /\ UNCHANGED <<masterPassword, accounts, isUnlocked, storage, now>>

\* lines 222-236
exportVaultEncrypted(t) ==
  /\ tasks[t].pc = "derive"
  /\ tasks[t].op = "exportVault"
  /\ LET e == encrypt(tasks[t].data, tasks[t].pw, tasks[t].salt, tasks[t].iv)
     IN  last' = Returned(Call("exportVault", tasks[t].args),
                          TransferPayload(tasks[t].data, e))
  /\ tasks' = [tasks EXCEPT ![t] = Idle]
  /\ UNCHANGED <<masterPassword, accounts, isUnlocked, storage, now>>
  /\ UNCHANGED issued

\* accounts of another vault, as an export of that vault carries them
ForeignAccount(account, n) == NewAccount(account, 0, n, 0, 0)
ForeignList ==
  LET a == CHOOSE x \in AccountInputs : x.type = "totp"
      b == CHOOSE x \in AccountInputs : x.type = "hotp"
  IN  <<ForeignAccount(a, 1), ForeignAccount(b, 2)>>

\* a list in which the second account repeats the (issuer, name) of the
\* first with another secret
TwinsList ==
  LET a == CHOOSE x \in AccountInputs : x.type = "totp"
      b == CHOOSE x \in AccountInputs : x.type = "hotp"
  IN  <<ForeignAccount(a, 1),
        ForeignAccount([a EXCEPT !.secret = "GEZDGNBVGY3TQOJQ"], 2),
        ForeignAccount(b, 3)>>

\* the master password of the vault the payloads were exported from
ForeignMaster == "p2"

\* the strings a caller passes to importVault, by name: exports of the other
\* vault (with the transfer password "p1", with the empty transfer password,
\* of the list with twins), such an export with its checksum or its iv
\* replaced, and a text that is not JSON
ImportPayloads ==
  {"foreign", "masterkeyed", "twins", "badsum", "badiv", "notjson"}
PayloadList(name) == IF name = "twins" THEN TwinsList ELSE ForeignList
\* the transfer password the other vault's exportVault was called with
PayloadPassword(name) == IF name = "masterkeyed" THEN "" ELSE "p1"
ImportPayload(name) ==
  LET exported == ExportOf(PayloadList(name), PayloadPassword(name),
                           ForeignMaster, 1, 1)
  IN  IF name \in {"foreign", "masterkeyed", "twins"} THEN exported
      ELSE IF name = "badsum"
      THEN JSONstringify(Spread(JSONparse(exported),
             [checksum |-> createChecksum(JSONstringify(<<>>))]))
      ELSE IF name = "badiv"
      THEN JSONstringify(Spread(JSONparse(exported),
             [iv |-> arrayBufferToBase64(2)]))
      ELSE NotJSON

IsTransferRecord(v) ==
  {"encryptedData", "salt", "iv", "hmac", "checksum"} \subseteq DOMAIN v

\* the fields importVault hands to addAccount (lines 276-285)
ImportFields == {"name", "issuer", "secret", "type", "algorithm", "digits",
                 "period", "counter"}
PickImportFields(account) == [k \in ImportFields |-> account[k]]

\* acc.issuer === account.issuer && acc.name === account.name (lines 271-273)
ExistsIn(accs, account) ==
  \E k \in 1..Len(accs) :
     accs[k].issuer = account.issuer /\ accs[k].name = account.name

\* the first index from i on whose account is not in accs yet
RECURSIVE NextNew(_, _, _)
NextNew(imported, i, accs) ==
  IF i > Len(imported) THEN i
  ELSE IF ExistsIn(accs, imported[i]) THEN NextNew(imported, i + 1, accs)
  ELSE i

\* the for loop of lines 270-290, from index i up to the next suspension
\* (inside addAccount) or to the return of the count
ImportLoop(t, frame, imported, i, count) ==
  LET j == NextNew(imported, i, accounts)
  IN  IF j > Len(imported)
      THEN /\ tasks' = [tasks EXCEPT ![t] = Idle]
           /\ last' = Returned(frame, count)
           /\ UNCHANGED <<masterPassword, accounts, isUnlocked, storage, now>>
      ELSE AddAccountBody(t, Spread(frame, [imported |-> imported, i |-> j,
                                            count |-> count]),
                          PickImportFields(imported[j]))

\* lines 243-257
importVaultStart(t, limit) ==
  /\ FreeSlot(t, limit)
  /\ \E name \in ImportPayloads, transferPassword \in Passwords :
       LET exportedData == ImportPayload(name)
           frame == Call("importVault", [exportedData |-> name,
                                         transferPassword |-> transferPassword])
       IN  IF ~isUnlocked
           THEN /\ last' = Threw(frame, "Vault must be unlocked to import")
                /\ UNCHANGED tasks
           ELSE IF ~JSONparses(exportedData)
           THEN /\ last' = Threw(frame, IMPORT_ERROR)
                /\ UNCHANGED tasks
           ELSE IF ~IsTransferRecord(JSONparse(exportedData))
           THEN /\ last' = Threw(frame, IMPORT_ERROR)
                /\ UNCHANGED tasks
           ELSE /\ tasks' = [tasks EXCEPT ![t] =
                               [pc |-> "decrypt",
                                importData |-> JSONparse(exportedData)]
                               @@ frame]
                /\ UNCHANGED last
  /\ UNCHANGED <<masterPassword, accounts, isUnlocked, storage, now>>

\* importVault as it would be without the comparison of lines 259-263
importVaultDecrypted_NoChecksum(t) ==
  /\ tasks[t].pc = "decrypt"
  /\ tasks[t].op = "importVault"
  /\ LET importData == tasks[t].importData
         frame == Call("importVault", tasks[t].args)
     IN  \E d \in decrypt(importData.encryptedData, frame.args.transferPassword,
                          importData.salt, importData.iv, importData.hmac) :
           IF d.ok /\ JSONparses(d.text)
           THEN ImportLoop(t, frame, JSONparse(d.text), 1, 0)
           ELSE /\ tasks' = [tasks EXCEPT ![t] = Idle]
                /\ last' = Threw(frame, IMPORT_ERROR)
                /\ UNCHANGED <<masterPassword, accounts, isUnlocked, storage, now>>
  /\ UNCHANGED issued

\* importVault as it would be if the catch of lines 291-294 rethrew the
\* error it caught
importVaultDecrypted_Rethrow(t) ==
  /\ tasks[t].pc = "decrypt"
  /\ tasks[t].op = "importVault"
  /\ LET importData == tasks[t].importData
         frame == Call("importVault", tasks[t].args)
     IN  \E d \in decrypt(importData.encryptedData, frame.args.transferPassword,
                          importData.salt, importData.iv, importData.hmac) :
           IF d.ok /\ createChecksum(d.text) = importData.checksum
                   /\ JSONparses(d.text)
           THEN ImportLoop(t, frame, JSONparse(d.text), 1, 0)
           ELSE /\ tasks' = [tasks EXCEPT ![t] = Idle]
                /\ last' = Threw(frame,
                                 IF ~d.ok THEN d.err
                                 ELSE IF createChecksum(d.text) # importData.checksum
                                 THEN "Checksum verification failed"
                                 ELSE "Unexpected token")
                /\ UNCHANGED <<masterPassword, accounts, isUnlocked, storage, now>>
  /\ UNCHANGED issued

\* lines 251-290
importVaultDecrypted(t) ==
  /\ tasks[t].pc = "decrypt"
  /\ tasks[t].op = "importVault"
  /\ LET importData == tasks[t].importData
         frame == Call("importVault", tasks[t].args)
     IN  \E d \in decrypt(importData.encryptedData, frame.args.transferPassword,
                          importData.salt, importData.iv, importData.hmac) :
           IF d.ok /\ createChecksum(d.text) = importData.checksum
                   /\ JSONparses(d.text)
           THEN ImportLoop(t, frame, JSONparse(d.text), 1, 0)
           ELSE /\ tasks' = [tasks EXCEPT ![t] = Idle]
                /\ last' = Threw(frame, IMPORT_ERROR)
                /\ UNCHANGED <<masterPassword, accounts, isUnlocked, storage, now>>
  /\ UNCHANGED issued

(* ------------------------- end of a save ------------------------------ *)
\* the end of a save as it would be if the caller committed its change to
\* the list only after the save: the list that was serialized becomes the
\* in-memory list
SaveVaultStored_Commit(t) ==
  /\ tasks[t].pc = "setItem"
  /\ LET op == tasks[t].op
         frame == Call(op, tasks[t].args)
     IN  IF op = "importVault"
         THEN ImportLoop(t, frame, tasks[t].imported, tasks[t].i + 1,
                         tasks[t].count + 1)
         ELSE /\ tasks' = [tasks EXCEPT ![t] = Idle]
              /\ last' = Returned(frame,
                            IF op \in {"addAccount", "addManual", "addFromURI"}
                            THEN tasks[t].newAccount
                            ELSE IF op = "changeMasterPassword" THEN TRUE
                            ELSE "void")
              /\ accounts' = JSONparse(tasks[t].data)
              /\ UNCHANGED <<masterPassword, isUnlocked, storage, now>>
  /\ UNCHANGED issued

\* setItem has resolved: saveVault returns to its caller, which returns
\* (lines 43, 118, 168, 190, 207, 315) or, in importVault, goes on with the
\* loop (line 286)
SaveVaultStored(t) ==
  /\ tasks[t].pc = "setItem"
  /\ LET op == tasks[t].op
         frame == Call(op, tasks[t].args)
     IN  IF op = "importVault"
         THEN ImportLoop(t, frame, tasks[t].imported, tasks[t].i + 1,
                         tasks[t].count + 1)
         ELSE /\ tasks' = [tasks EXCEPT ![t] = Idle]
              /\ last' = Returned(frame,
                            IF op \in {"addAccount", "addManual", "addFromURI"}
                            THEN tasks[t].newAccount
                            ELSE IF op = "changeMasterPassword" THEN TRUE
                            ELSE "void")
              /\ UNCHANGED <<masterPassword, accounts, isUnlocked, storage, now>>
  /\ UNCHANGED issued

(* ----------------------------- deleteVault ---------------------------- *)
\* deleteVault (lines 328-331): lockVault, then removeItem, which removes
\* the item before it suspends
deleteVaultStart(t, limit) ==
  /\ FreeSlot(t, limit)
  /\ accounts' = <<>>
  /\ isUnlocked' = FALSE
  /\ masterPassword' = IF ~Falsy(masterPassword) THEN NULL ELSE masterPassword
  /\ storage' = removeItem(VAULT_KEY)
  /\ tasks' = [tasks EXCEPT ![t] =
                 [pc |-> "removeItem"] @@ Call("deleteVault", NoArgs)]
  /\ UNCHANGED <<now, last>>

\* removeItem has resolved: deleteVault returns
deleteVaultRemoved(t) ==
  /\ tasks[t].pc = "removeItem"
  /\ tasks[t].op = "deleteVault"
  /\ tasks' = [tasks EXCEPT ![t] = Idle]
  /\ last' = Returned(Call("deleteVault", NoArgs), "void")
  /\ UNCHANGED <<masterPassword, accounts, isUnlocked, storage, now>>
  /\ UNCHANGED issued

(* --------------------------- BiometricService ------------------------- *)
\* generateTransferKey: the random session key
SessionKeys == {"k1"}
\* the native biometric prompt: the user passes it or not
AuthenticateResults == BOOLEAN
\* what the callers pass: AuthScreen (lines 66-80) enables biometric unlock
\* with the password that has just opened the vault; updatePassword is
\* meant to be given the vault's new password
EnableInputs == IF isUnlocked THEN {masterPassword} ELSE {}
BiometricOps == {"enable", "disable", "unlock", "updatePassword"}

\* isEnabled (lines 226-233): enabled === 'true'
isEnabled == getItem(BIOMETRIC_KEY_STORAGE) = Str("true")

\* the password enable encrypts: its argument, or that of updatePassword
EnablePassword(t) ==
  IF tasks[t].op = "enable" THEN tasks[t].args.masterPassword
  ELSE tasks[t].args.newPassword

\* enable (line 242): the call of authenticate
enableStart(t, limit) ==
  /\ FreeSlot(t, limit)
  /\ \E pw \in EnableInputs :
       tasks' = [tasks EXCEPT ![t] =
                   [pc |-> "authenticateEnable"]
                   @@ Call("enable", [masterPassword |-> pw])]
  /\ UNCHANGED <<masterPassword, accounts, isUnlocked, storage, now, last>>

\* enable as it would be if the enabled mark were written before the prompt
\* is looked at
enableAuthenticated_MarksFirst(t) ==
  /\ tasks[t].pc = "authenticateEnable"
  /\ \E authenticated \in AuthenticateResults :
       IF ~authenticated
       THEN /\ tasks' = [tasks EXCEPT ![t] = Idle]
            /\ last' = Returned(Call(tasks[t].op, tasks[t].args), FALSE)
       ELSE /\ \E sessionKey \in SessionKeys, salt \in Salts, iv \in IVs :
                 tasks' = [tasks EXCEPT ![t] =
                             [pc |-> "encrypt", sessionKey |-> sessionKey,
                              salt |-> salt, iv |-> iv]
                             @@ Call(tasks[t].op, tasks[t].args)]
            /\ UNCHANGED last
  /\ storage' = setItem(BIOMETRIC_KEY_STORAGE, Str("true"))
  /\ UNCHANGED <<masterPassword, accounts, isUnlocked, now>>
  /\ UNCHANGED issued

\* lines 242-251: a failed prompt returns false; otherwise the session key
\* is drawn and encrypt suspends on the key derivation
enableAuthenticated(t) ==
  /\ tasks[t].pc = "authenticateEnable"
  /\ \E authenticated \in AuthenticateResults :
       IF ~authenticated
       THEN /\ tasks' = [tasks EXCEPT ![t] = Idle]
            /\ last' = Returned(Call(tasks[t].op, tasks[t].args), FALSE)
       ELSE /\ \E sessionKey \in SessionKeys, salt \in Salts, iv \in IVs :
                 tasks' = [tasks EXCEPT ![t] =
                             [pc |-> "encrypt", sessionKey |-> sessionKey,
                              salt |-> salt, iv |-> iv]
                             @@ Call(tasks[t].op, tasks[t].args)]
            /\ UNCHANGED last
  /\ UNCHANGED <<masterPassword, accounts, isUnlocked, storage, now>>
  /\ UNCHANGED issued

\* the object of lines 256-262
SessionData(e, sessionKey) ==
  [encrypted |-> e.encrypted, salt |-> e.salt, iv |-> e.iv, hmac |-> e.hmac,
   sessionKey |-> sessionKey]

\* lines 251-263: the password is encrypted under the session key and the
\* session item is written
enableEncrypted(t) ==
  /\ tasks[t].pc = "encrypt"
  /\ tasks[t].op \in {"enable", "updatePassword"}
  /\ LET e == encrypt(Str(EnablePassword(t)), tasks[t].sessionKey,
                      tasks[t].salt, tasks[t].iv)
     IN  storage' = setItem(SESSION_KEY_STORAGE,
                            JSONstringify(SessionData(e, tasks[t].sessionKey)))
  /\ tasks' = [tasks EXCEPT ![t] =
                 [pc |-> "setSession"] @@ Call(tasks[t].op, tasks[t].args)]
  /\ UNCHANGED <<masterPassword, accounts, isUnlocked, now, last>>
  /\ UNCHANGED issued

\* line 266: biometric unlock is marked as enabled
enableSessionStored(t) ==
  /\ tasks[t].pc = "setSession"
  /\ storage' = setItem(BIOMETRIC_KEY_STORAGE, Str("true"))
  /\ tasks' = [tasks EXCEPT ![t] =
                 [pc |-> "setEnabled"] @@ Call(tasks[t].op, tasks[t].args)]
  /\ UNCHANGED <<masterPassword, accounts, isUnlocked, now, last>>
  /\ UNCHANGED issued

\* line 268: return true (updatePassword returns what enable returned)
enableEnabled(t) ==
  /\ tasks[t].pc = "setEnabled"
  /\ tasks' = [tasks EXCEPT ![t] = Idle]
  /\ last' = Returned(Call(tasks[t].op, tasks[t].args), TRUE)
  /\ UNCHANGED <<masterPassword, accounts, isUnlocked, storage, now>>
  /\ UNCHANGED issued

\* disable as it would be if it removed the session item first
disableStart_SessionFirst(t, limit) ==
  /\ FreeSlot(t, limit)
  /\ storage' = removeItem(SESSION_KEY_STORAGE)
  /\ tasks' = [tasks EXCEPT ![t] =
                 [pc |-> "removeEnabled"] @@ Call("disable", NoArgs)]
  /\ UNCHANGED <<masterPassword, accounts, isUnlocked, now, last>>

\* disable (line 279): the enabled mark is removed
disableStart(t, limit) ==
  /\ FreeSlot(t, limit)
  /\ storage' = removeItem(BIOMETRIC_KEY_STORAGE)
  /\ tasks' = [tasks EXCEPT ![t] =
                 [pc |-> "removeEnabled"] @@ Call("disable", NoArgs)]
  /\ UNCHANGED <<masterPassword, accounts, isUnlocked, now, last>>

\* line 280: the session item is removed
disableEnabledRemoved(t) ==
  /\ tasks[t].pc = "removeEnabled"
  /\ storage' = removeItem(SESSION_KEY_STORAGE)
  /\ tasks' = [tasks EXCEPT ![t] =
                 [pc |-> "removeSession"] @@ Call(tasks[t].op, tasks[t].args)]
  /\ UNCHANGED <<masterPassword, accounts, isUnlocked, now, last>>
  /\ UNCHANGED issued

\* disable returns; in updatePassword (line 360) enable is called next
disableSessionRemoved(t) ==
  /\ tasks[t].pc = "removeSession"
  /\ IF tasks[t].op = "disable"
     THEN /\ tasks' = [tasks EXCEPT ![t] = Idle]
          /\ last' = Returned(Call("disable", NoArgs), "void")
     ELSE /\ tasks' = [tasks EXCEPT ![t] =
                         [pc |-> "authenticateEnable"]
                         @@ Call(tasks[t].op, tasks[t].args)]
          /\ UNCHANGED last
  /\ UNCHANGED <<masterPassword, accounts, isUnlocked, storage, now>>
  /\ UNCHANGED issued

\* unlock (line 290): the read of the enabled mark
unlockStart(t, limit) ==
  /\ FreeSlot(t, limit)
  /\ tasks' = [tasks EXCEPT ![t] =
                 [pc |-> "isEnabled", enabled |-> isEnabled]
                 @@ Call("unlock", NoArgs)]
  /\ UNCHANGED <<masterPassword, accounts, isUnlocked, storage, now, last>>

\* unlock as it would be without the check of lines 290-292
unlockIsEnabled_NoCheck(t) ==
  /\ tasks[t].pc = "isEnabled"
  /\ tasks[t].op = "unlock"
  /\ tasks' = [tasks EXCEPT ![t] =
                 [pc |-> "authenticateUnlock"] @@ Call("unlock", NoArgs)]
  /\ UNCHANGED last
  /\ UNCHANGED <<masterPassword, accounts, isUnlocked, storage, now>>
  /\ UNCHANGED issued

\* lines 290-295: not enabled returns null; otherwise the prompt
unlockIsEnabled(t) ==
  /\ tasks[t].pc = "isEnabled"
  /\ tasks[t].op = "unlock"
  /\ IF ~tasks[t].enabled
     THEN /\ tasks' = [tasks EXCEPT ![t] = Idle]
          /\ last' = Returned(Call("unlock", NoArgs), NULL)
     ELSE /\ tasks' = [tasks EXCEPT ![t] =
                         [pc |-> "authenticateUnlock"] @@ Call("unlock", NoArgs)]
          /\ UNCHANGED last
  /\ UNCHANGED <<masterPassword, accounts, isUnlocked, storage, now>>
  /\ UNCHANGED issued

\* lines 295-301: a failed prompt returns null; otherwise the session item
\* is read
unlockAuthenticated(t) ==
  /\ tasks[t].pc = "authenticateUnlock"
  /\ \E authenticated \in AuthenticateResults :
       IF ~authenticated
       THEN /\ tasks' = [tasks EXCEPT ![t] = Idle]
            /\ last' = Returned(Call("unlock", NoArgs), NULL)
       ELSE /\ tasks' = [tasks EXCEPT ![t] =
                           [pc |-> "getSession",
                            sessionData |-> getItem(SESSION_KEY_STORAGE)]
                           @@ Call("unlock", NoArgs)]
            /\ UNCHANGED last
  /\ UNCHANGED <<masterPassword, accounts, isUnlocked, storage, now>>
  /\ UNCHANGED issued

IsSessionRecord(v) ==
  {"encrypted", "salt", "iv", "hmac", "sessionKey"} \subseteq DOMAIN v

\* lines 301-309: no session item returns null, one that does not parse is
\* caught; otherwise decrypt suspends on the key derivation
unlockSessionRead(t) ==
  /\ tasks[t].pc = "getSession"
  /\ LET sessionData == tasks[t].sessionData
     IN  IF \/ FalsyItem(sessionData)
            \/ ~JSONparses(sessionData)
            \/ ~IsSessionRecord(JSONparse(sessionData))
         THEN /\ tasks' = [tasks EXCEPT ![t] = Idle]
              /\ last' = Returned(Call("unlock", NoArgs), NULL)
         ELSE /\ tasks' = [tasks EXCEPT ![t] =
                             [pc |-> "decryptSession",
                              session |-> JSONparse(sessionData)]
                             @@ Call("unlock", NoArgs)]
              /\ UNCHANGED last
  /\ UNCHANGED <<masterPassword, accounts, isUnlocked, storage, now>>
  /\ UNCHANGED issued

\* a decrypted string as the caller sees it
StringOf(text) == IF text.kind = "str" THEN text.s ELSE "garbage"

\* lines 309-315: the decrypted master password is returned; an error of
\* decrypt is caught and null returned
unlockDecrypted(t) ==
  /\ tasks[t].pc = "decryptSession"
  /\ LET v == tasks[t].session
     IN  \E d \in decrypt(v.encrypted, v.sessionKey, v.salt, v.iv, v.hmac) :
           last' = Returned(Call("unlock", NoArgs),
                            IF d.ok THEN StringOf(d.text) ELSE NULL)
  /\ tasks' = [tasks EXCEPT ![t] = Idle]
  /\ UNCHANGED <<masterPassword, accounts, isUnlocked, storage, now>>
  /\ UNCHANGED issued

\* updatePassword (line 354): the read of the enabled mark
updatePasswordStart(t, limit) ==
  /\ FreeSlot(t, limit)
  /\ \E newPassword \in EnableInputs :
       tasks' = [tasks EXCEPT ![t] =
                   [pc |-> "isEnabled", enabled |-> isEnabled]
                   @@ Call("updatePassword", [newPassword |-> newPassword])]
  /\ UNCHANGED <<masterPassword, accounts, isUnlocked, storage, now, last>>

\* lines 354-359: not enabled returns true; otherwise disable is called and
\* removes the enabled mark
updatePasswordIsEnabled(t) ==
  /\ tasks[t].pc = "isEnabled"
  /\ tasks[t].op = "updatePassword"
  /\ LET frame == Call("updatePassword", tasks[t].args)
     IN  IF ~tasks[t].enabled
         THEN /\ tasks' = [tasks EXCEPT ![t] = Idle]
              /\ last' = Returned(frame, TRUE)
              /\ UNCHANGED storage
         ELSE /\ storage' = removeItem(BIOMETRIC_KEY_STORAGE)
              /\ tasks' = [tasks EXCEPT ![t] = [pc |-> "removeEnabled"] @@ frame]
              /\ UNCHANGED last
  /\ UNCHANGED <<masterPassword, accounts, isUnlocked, now>>
  /\ UNCHANGED issued

(* ---------------------------- AccountService -------------------------- *)
\* secret.replace(/\s/g, '').toUpperCase() (part_002 lines 164, and
\* AddAccountModal line 63), on the secrets of the model
CleanSecret(secret) ==
  IF secret = "jbsw y3dp ehpk 3pxp" THEN "JBSWY3DPEHPK3PXP"
  ELSE IF secret = "not-base32!" THEN "NOT-BASE32!"
  ELSE secret

\* /^[A-Z2-7]+=*$/ (part_002 line 167), on the secrets of the model
Base32Regex(secret) == secret \in {"JBSWY3DPEHPK3PXP", "GEZDGNBVGY3TQOJQ"}

\* OTPService.validateSecret (part_002 lines 162-180)
validateSecret(secret) == Base32Regex(CleanSecret(secret))

\* the values Math.random() takes where two ids have to differ
WideRand == {1, 2}

\* what callers may pass to VaultService.addAccount, whose parameter type is
\* erased at run time: the two accounts, one carrying id and timestamps of
\* its own, one whose secret is not normalized
WideAccountInputs ==
  LET a == CHOOSE x \in AccountInputs : x.type = "totp"
  IN  AccountInputs
      \cup { Spread(a, [id |-> generateId(0, 0), createdAt |-> 0,
                        updatedAt |-> 0]),
             [a EXCEPT !.secret = "jbsw y3dp ehpk 3pxp"] }

\* Partial<Account> values: a new name, id and timestamps, a secret that is
\* not Base32
WidePartials ==
  { [name |-> "carol"],
    [id |-> generateId(1, 1), createdAt |-> 0, updatedAt |-> 0],
    [secret |-> "not-base32!"] }

addAccountAny(t, limit) ==
  /\ FreeSlot(t, limit)
  /\ \E account \in WideAccountInputs :
       AddAccountWith(t, Call("addAccount", [account |-> account]), account,
                      WideRand)

updateAccountAny(t, limit) == updateAccountCall(t, limit, WidePartials)

\* addManual (account.service.ts lines 37-44): the secret is validated, the
\* account data is handed on as it was given
ManualInputs ==
  LET a == CHOOSE x \in AccountInputs : x.type = "totp"
  IN  { a, [a EXCEPT !.secret = "jbsw y3dp ehpk 3pxp"],
        [a EXCEPT !.secret = "not-base32!"] }

addManualStart(t, limit) ==
  /\ FreeSlot(t, limit)
  /\ \E accountData \in ManualInputs :
       LET frame == Call("addManual", [accountData |-> accountData])
       IN  IF ~validateSecret(accountData.secret)
           THEN /\ last' = Threw(frame, "Invalid secret key")
                /\ UNCHANGED <<masterPassword, accounts, isUnlocked, storage,
                               now, tasks>>
           ELSE AddAccountWith(t, frame, accountData, WideRand)

\* otpauth URIs, by their parts: scheme, host, the label split at ':', and
\* the search parameters present
URIInputs ==
  { [scheme |-> "otpauth", host |-> "totp",
     label |-> <<"GitHub", "alice@example.com">>,
     params |-> [secret |-> "JBSWY3DPEHPK3PXP"]],
    [scheme |-> "otpauth", host |-> "hotp", label |-> <<"bob">>,
     params |-> [secret |-> "not-base32!", issuer |-> "GitHub",
                 digits |-> 6, counter |-> 0]],
    [scheme |-> "otpauth", host |-> "totp", label |-> <<"bob">>,
     params |-> [issuer |-> "GitHub"]],
    [scheme |-> "otpauth", host |-> "totp", label |-> <<"bob">>,
     params |-> [secret |-> "JBSWY3DPEHPK3PXP", digits |-> 9]],
    [scheme |-> "https", host |-> "totp", label |-> <<"bob">>,
     params |-> [secret |-> "JBSWY3DPEHPK3PXP"]] }

\* url.searchParams.get(name) || fallback
ParamOr(uri, name, fallback) ==
  IF name \in DOMAIN uri.params THEN uri.params[name] ELSE fallback

\* OTPService.parseOTPAuthURI (part_002 lines 72-136); every error is
\* rethrown as 'Invalid OTP URI format'
ParseFails(uri) ==
  \/ uri.scheme # "otpauth"
  \/ uri.host \notin {"totp", "hotp"}
  \/ "secret" \notin DOMAIN uri.params
  \/ ParamOr(uri, "secret", "") = ""
  \/ ParamOr(uri, "algorithm", "SHA1") \notin {"SHA1", "SHA256", "SHA512"}
  \/ ParamOr(uri, "digits", 6) \notin {6, 7, 8}

parseOTPAuthURI(uri) ==
  LET issuerParam == ParamOr(uri, "issuer", "")
      issuer == IF Len(uri.label) = 2 /\ issuerParam = "" THEN uri.label[1]
                ELSE issuerParam
      name == IF Len(uri.label) = 2 THEN uri.label[2] ELSE uri.label[1]
  IN  [name |-> IF name = "" THEN "Unknown" ELSE name,
       issuer |-> IF issuer = "" THEN "Unknown" ELSE issuer,
       secret |-> uri.params.secret,
       type |-> uri.host,
       algorithm |-> ParamOr(uri, "algorithm", "SHA1"),
       digits |-> ParamOr(uri, "digits", 6),
       period |-> ParamOr(uri, "period", 30),
       counter |-> ParamOr(uri, "counter", 0)]

\* addFromURI (account.service.ts lines 29-32)
addFromURIStart(t, limit) ==
  /\ FreeSlot(t, limit)
  /\ \E uri \in URIInputs :
       LET frame == Call("addFromURI", [uri |-> uri])
       IN  IF ParseFails(uri)
           THEN /\ last' = Threw(frame, "Invalid OTP URI format")
                /\ UNCHANGED <<masterPassword, accounts, isUnlocked, storage,
                               now, tasks>>
           ELSE AddAccountWith(t, frame, parseOTPAuthURI(uri), WideRand)

\* Array.prototype.find(acc => acc.id === id) of getAccount (vault.service.ts
\* lines 143-148); NULL stands for undefined
getAccountOf(accs, id) ==
  IF findIndex(accs, id) = 0 THEN NULL ELSE accs[findIndex(accs, id)]

\* incrementHOTPCounter (account.service.ts lines 74-83): getAccount, the
\* type check and the synchronous body of updateAccount run without a
\* suspension in between
incrementHOTPCounterStart(t, limit) ==
  /\ FreeSlot(t, limit)
  /\ \E id \in IdInputs :
       LET frame == Call("incrementHOTPCounter", [id |-> id])
           account == getAccountOf(accounts, id)
       IN  IF ~isUnlocked
           THEN /\ last' = Threw(frame, "Vault is locked")
                /\ UNCHANGED <<masterPassword, accounts, isUnlocked, storage,
                               now, tasks>>
           ELSE IF findIndex(accounts, id) = 0 \/ account.type # "hotp"
           THEN /\ last' = Threw(frame, "Account is not HOTP")
                /\ UNCHANGED <<masterPassword, accounts, isUnlocked, storage,
                               now, tasks>>
           ELSE UpdateAccountWith(t, frame, id,
                                  [counter |-> account.counter + 1])

(* ------------------------------ restart ------------------------------- *)
\* The process ends and starts again: the static fields are initialized
\* anew (lines 15-17), every pending call is gone, storage stays.
Restart ==
  /\ masterPassword' = NULL
  /\ accounts' = <<>>
  /\ isUnlocked' = FALSE
  /\ tasks' = [t \in TaskIds |-> Idle]
  /\ last' = Call("restart", NoArgs)
  /\ UNCHANGED <<storage, now>>
  /\ UNCHANGED issued

(* --------------------------- specifications --------------------------- *)
Calls(limit) ==
  \E t \in TaskIds :
    \/ createVaultStart(t, limit)
    \/ unlockVaultStart(t, limit)
    \/ addAccountStart(t, limit)
    \/ updateAccountStart(t, limit)
    \/ deleteAccountStart(t, limit)
    \/ saveVaultStart(t, limit)
    \/ changeMasterPasswordStart(t, limit)
    \/ exportVaultStart(t, limit)
    \/ importVaultStart(t, limit)
    \/ deleteVaultStart(t, limit)

Resume ==
  \E t \in TaskIds :
    \/ createVaultInitialized(t)
    \/ unlockVaultLoaded(t)
    \/ unlockVaultDecrypted(t)
    \/ SaveVaultEncrypted(t)
    \/ SaveVaultStored(t)
    \/ exportVaultEncrypted(t)
    \/ importVaultDecrypted(t)
    \/ deleteVaultRemoved(t)

Queries(limit) ==
  \/ lockVault(limit)
  \/ getAccounts(limit)
  \/ getMasterPassword(limit)
  \/ getAccount(limit)

\* every call completes before the next one starts
Next == Calls(1) \/ Resume \/ Queries(1) \/ Restart
Spec == Init /\ [][Next]_vars

\* The vault has been created with password "p1" (the state in which
\* createVault("p1") completes); then mutating calls are issued while earlier
\* ones are still awaiting their key or their write: up to MaxTasks overlap,
\* MaxCalls calls in all.
\* Nothing orders the completions of the key derivations of two calls.
InitCreated ==
  /\ masterPassword = "p1"
  /\ accounts = <<>>
  /\ isUnlocked = TRUE
  /\ storage = [k \in StorageKeys |->
                  IF k = VAULT_KEY
                  THEN JSONstringify(EncryptedVault(
                         encrypt(JSONstringify(<<>>), "p1", 1, 1)))
                  ELSE Absent]
  /\ now = 1
  /\ tasks = [t \in TaskIds |-> Idle]
  /\ last = Returned(Call("createVault", [masterPassword |-> "p1"]), "void")
  /\ issued = 0

Mutations(limit) ==
  \E t \in TaskIds :
    \/ addAccountStart(t, limit)
    \/ updateAccountStart(t, limit)
    \/ deleteAccountStart(t, limit)
    \/ saveVaultStart(t, limit)
    \/ changeMasterPasswordStart(t, limit)

SaveSteps ==
  \E t \in TaskIds :
    \/ SaveVaultEncrypted(t)
    \/ SaveVaultStored(t)

NextOverlap == Mutations(MaxTasks) \/ SaveSteps
OverlapSpec == InitCreated /\ [][NextOverlap]_vars

\* The vault together with biometric unlock, one call at a time: creation,
\* unlocking, locking, password change, and the BiometricService calls.
BiometricCalls(limit) ==
  \E t \in TaskIds :
    \/ enableStart(t, limit)
    \/ disableStart(t, limit)
    \/ unlockStart(t, limit)
    \/ updatePasswordStart(t, limit)

BiometricSteps ==
  \E t \in TaskIds :
    \/ enableAuthenticated(t)
    \/ enableEncrypted(t)
    \/ enableSessionStored(t)
    \/ enableEnabled(t)
    \/ disableEnabledRemoved(t)
    \/ disableSessionRemoved(t)
    \/ unlockIsEnabled(t)
    \/ unlockAuthenticated(t)
    \/ unlockSessionRead(t)
    \/ unlockDecrypted(t)
    \/ updatePasswordIsEnabled(t)

VaultCalls(limit) ==
  \E t \in TaskIds :
    \/ createVaultStart(t, limit)
    \/ unlockVaultStart(t, limit)
    \/ changeMasterPasswordStart(t, limit)

VaultSteps ==
  \E t \in TaskIds :
    \/ createVaultInitialized(t)
    \/ unlockVaultLoaded(t)
    \/ unlockVaultDecrypted(t)
    \/ SaveVaultEncrypted(t)
    \/ SaveVaultStored(t)

NextBiometric ==
  \/ VaultCalls(1)
  \/ VaultSteps
  \/ lockVault(1)
  \/ BiometricCalls(1)
  \/ BiometricSteps
  \/ Restart
BiometricSpec == Init /\ [][NextBiometric]_vars

\* The vault on Electron, one call at a time: the saving operations over a
\* store whose set operation may answer false.
ElectronSteps ==
  \E t \in TaskIds :
    \/ createVaultInitialized(t)
    \/ unlockVaultLoaded(t)
    \/ unlockVaultDecrypted(t)
    \/ SaveVaultEncryptedElectron(t)
    \/ SaveVaultStored(t)

NextElectron ==
  \/ \E t \in TaskIds : createVaultStart(t, 1) \/ unlockVaultStart(t, 1)
  \/ Mutations(1)
  \/ ElectronSteps
  \/ lockVault(1)
ElectronSpec == Init /\ [][NextElectron]_vars

\* EncryptionService by itself: a plaintext is encrypted, then the
\* envelope, as returned or altered in one field, is decrypted under some
\* password. last holds the outcome of the call made last.
Plaintexts == {Str(""), Str("hello"), JSONstringify(<<>>)}
NotBase64 == [kind |-> "garbage"]
AlteredEnvelopes(e) ==
  LET ct == base64ToUint8Array(e.encrypted)
  IN  { e,
        [e EXCEPT !.encrypted = arrayBufferToBase64([ct EXCEPT !.flip = 1])],
        [e EXCEPT !.encrypted = NotBase64],
        [e EXCEPT !.hmac = HmacSHA256(ct, deriveKey("forged", 0))],
        [e EXCEPT !.iv = arrayBufferToBase64(2)],
        [e EXCEPT !.salt = arrayBufferToBase64(2)] }

encryptCall ==
  /\ \E data \in Plaintexts, password \in Passwords :
       \E salt \in Salts, iv \in IVs :
         last' = Returned(Call("encrypt", [data |-> data, password |-> password]),
                          encrypt(data, password, salt, iv))
  /\ UNCHANGED <<masterPassword, accounts, isUnlocked, storage, now, tasks>>
  /\ UNCHANGED issued

decryptCall ==
  /\ last.op = "encrypt"
  /\ \E e \in AlteredEnvelopes(last.value), password \in Passwords :
       LET frame == Call("decrypt", [encryptedData |-> e.encrypted,
                                     password |-> password, salt |-> e.salt,
                                     iv |-> e.iv, hmac |-> e.hmac])
       IN  \E d \in decrypt(e.encrypted, password, e.salt, e.iv, e.hmac) :
             last' = IF d.ok THEN Returned(frame, d.text)
                     ELSE Threw(frame, d.err)
  /\ UNCHANGED <<masterPassword, accounts, isUnlocked, storage, now, tasks>>
  /\ UNCHANGED issued

NextCrypto == encryptCall \/ decryptCall
CryptoSpec == Init /\ [][NextCrypto]_vars

\* The accounts of an unlocked vault, one call at a time: accounts are
\* added through VaultService and AccountService, updated with any partial,
\* deleted, imported; the vault is locked and unlocked.
AccountCalls(limit) ==
  \E t \in TaskIds :
    \/ addAccountAny(t, limit)
    \/ addManualStart(t, limit)
    \/ addFromURIStart(t, limit)
    \/ updateAccountAny(t, limit)
    \/ deleteAccountStart(t, limit)
    \/ importVaultStart(t, limit)
    \/ unlockVaultStart(t, limit)

AccountSteps ==
  \E t \in TaskIds :
    \/ SaveVaultEncrypted(t)
    \/ SaveVaultStored(t)
    \/ importVaultDecrypted(t)
    \/ unlockVaultLoaded(t)
    \/ unlockVaultDecrypted(t)

NextAccounts == AccountCalls(1) \/ AccountSteps \/ lockVault(1)
AccountsSpec == InitCreated /\ [][NextAccounts]_vars

\* The HOTP counter under calls that overlap. The vault holds a HOTP and a
\* TOTP account, added before and saved by saveVault(); incrementHOTPCounter
\* is called while other calls are in flight (AccountCard.tsx lines 55-60:
\* no call waits for another).
CounterAccounts ==
  LET hotp == CHOOSE x \in AccountInputs : x.type = "hotp"
      totp == CHOOSE x \in AccountInputs : x.type = "totp"
  IN  << NewAccount(hotp, 1, 1, 1, 1), NewAccount(totp, 1, 2, 1, 1) >>

InitCounter ==
  /\ masterPassword = "p1"
  /\ accounts = CounterAccounts
  /\ isUnlocked = TRUE
  /\ storage = [k \in StorageKeys |->
                  IF k = VAULT_KEY
                  THEN JSONstringify(EncryptedVault(
                         encrypt(JSONstringify(CounterAccounts), "p1", 1, 1)))
                  ELSE Absent]
  /\ now = 1
  /\ tasks = [t \in TaskIds |-> Idle]
  /\ last = Returned(Call("saveVault", NoArgs), "void")
  /\ issued = 0

CounterCalls == \E t \in TaskIds : incrementHOTPCounterStart(t, MaxTasks)

NextCounter == CounterCalls \/ SaveSteps
CounterSpec == InitCounter /\ [][NextCounter]_vars

\* The unlocked vault over time. The user issues calls (MaxCalls at most)
\* and may lock the vault by hand (App.handleLock); no step is ever forced
\* on the user, so a behaviour in which the user stops is a behaviour of
\* this specification. What the program does on its own is fair: a pending
\* promise is eventually resolved and its continuation run. The source
\* starts no timer that calls lockVault, so there is no such action.
NextAutoLock == CounterCalls \/ SaveSteps \/ lockVault(1)
AutoLockSpec ==
  InitCounter /\ [][NextAutoLock]_vars /\ WF_vars(SaveSteps)

\* Locking while unlockVault calls are in flight. Once lockVault has
\* returned the client starts no further unlockVault until another call has
\* completed, so an unlockVault that completes while lockVault is the call
\* completed last began before that lockVault.
unlockVaultEarlier(t) ==
  /\ last.op # "lockVault"
  /\ unlockVaultStart(t, MaxTasks)

NextLockRace ==
  \/ \E t \in TaskIds :
       \/ unlockVaultEarlier(t)
       \/ unlockVaultLoaded(t)
       \/ unlockVaultDecrypted(t)
  \/ lockVault(MaxTasks)
LockRaceSpec == InitCreated /\ [][NextLockRace]_vars

\* Deleting the vault while saves are in flight; createVault is never
\* called
NextDeleteRace ==
  \/ \E t \in TaskIds :
       \/ addAccountStart(t, MaxTasks)
       \/ deleteVaultStart(t, MaxTasks)
       \/ deleteVaultRemoved(t)
  \/ SaveSteps
DeleteRaceSpec == InitCreated /\ [][NextDeleteRace]_vars

\* Saves that fail: one call at a time over a store whose setItem may
\* throw; the vault may be locked while a call is in flight
NextFailingSave ==
  \/ \E t \in TaskIds :
       \/ createVaultStart(t, 1)
       \/ addAccountStart(t, 1)
       \/ updateAccountStart(t, 1)
       \/ deleteAccountStart(t, 1)
       \/ changeMasterPasswordStart(t, 1)
       \/ importVaultStart(t, 1)
       \/ createVaultInitialized(t)
       \/ importVaultDecrypted(t)
       \/ SaveVaultEncrypted(t)
       \/ SaveVaultSetItemThrows(t)
       \/ SaveVaultStored(t)
  \/ lockVault(MaxTasks)
FailingSaveSpec == Init /\ [][NextFailingSave]_vars

\* The items of BiometricService are under the user's hands as well: the
\* session item replaced by the empty string, by text that is not JSON, by
\* JSON that is not a session record, or by the stored record with another
\* hmac, ciphertext, iv or session key; the session item removed; the
\* enabled mark written as 'true' or as 'false'.
TamperedSessions(item) ==
  {Str(""), NotJSON, JSONstringify([sessionKey |-> "k1"])}
  \cup
  (IF JSONparses(item) /\ IsSessionRecord(JSONparse(item))
   THEN LET v == JSONparse(item)
            ct == base64ToUint8Array(v.encrypted)
        IN  { JSONstringify([v EXCEPT !.hmac =
                               HmacSHA256(ct, deriveKey("forged", 0))]),
              JSONstringify([v EXCEPT !.encrypted =
                               arrayBufferToBase64([ct EXCEPT !.flip = 1])]),
              JSONstringify([v EXCEPT !.iv = arrayBufferToBase64(2)]),
              JSONstringify([v EXCEPT !.sessionKey = "other"]) }
   ELSE {})

TamperSession ==
  /\ \E item \in TamperedSessions(getItem(SESSION_KEY_STORAGE)) :
       storage' = setItem(SESSION_KEY_STORAGE, item)
  /\ UNCHANGED <<masterPassword, accounts, isUnlocked, now, tasks, last>>
  /\ UNCHANGED issued

RemoveSession ==
  /\ ~IsNullItem(getItem(SESSION_KEY_STORAGE))
  /\ storage' = removeItem(SESSION_KEY_STORAGE)
  /\ UNCHANGED <<masterPassword, accounts, isUnlocked, now, tasks, last>>
  /\ UNCHANGED issued

WriteEnabled ==
  /\ \E v \in {Str("true"), Str("false")} :
       storage' = setItem(BIOMETRIC_KEY_STORAGE, v)
  /\ UNCHANGED <<masterPassword, accounts, isUnlocked, now, tasks, last>>
  /\ UNCHANGED issued

\* the BiometricService calls, one at a time, in an unlocked vault, over
\* biometric items whose content is arbitrary
NextSessionTamper ==
  \/ BiometricCalls(1)
  \/ BiometricSteps
  \/ TamperSession
  \/ RemoveSession
  \/ WriteEnabled
SessionTamperSpec == InitCreated /\ [][NextSessionTamper]_vars

\* Storage is under the user's hands: the vault item may be replaced by
\* any string. Those tried: the empty string, text that is not JSON, JSON
\* that is not a vault record, and the stored record with another hmac,
\* another ciphertext, another iv, or re-encrypted under another password.
TamperedItems(item) ==
  {Str(""), NotJSON, JSONstringify([version |-> VAULT_VERSION])}
  \cup
  (IF JSONparses(item) /\ IsVaultRecord(JSONparse(item))
   THEN LET v == JSONparse(item)
            ct == base64ToUint8Array(v.data)
        IN  { JSONstringify([v EXCEPT !.hmac = HmacSHA256(ct, deriveKey("forged", 0))]),
              JSONstringify([v EXCEPT !.data =
                               arrayBufferToBase64([ct EXCEPT !.flip = 1])]),
              JSONstringify([v EXCEPT !.iv = arrayBufferToBase64(2)]),
              JSONstringify(EncryptedVault(
                encrypt(ct.pt, "other", base64ToUint8Array(v.salt),
                        base64ToUint8Array(v.iv)))) }
   ELSE {})

Tamper ==
  /\ \E item \in TamperedItems(getItem(VAULT_KEY)) :
       storage' = setItem(VAULT_KEY, item)
  /\ UNCHANGED <<masterPassword, accounts, isUnlocked, now, tasks, last>>
  /\ UNCHANGED issued

\* localStorage.removeItem on the vault item, by the user
RemoveItem ==
  /\ ~IsNullItem(getItem(VAULT_KEY))
  /\ storage' = removeItem(VAULT_KEY)
  /\ UNCHANGED <<masterPassword, accounts, isUnlocked, now, tasks, last>>
  /\ UNCHANGED issued

\* creation, locking and unlocking, one call at a time, over a storage
\* whose content is arbitrary
NextTamper ==
  \/ \E t \in TaskIds :
       \/ createVaultStart(t, 1)
       \/ unlockVaultStart(t, 1)
       \/ createVaultInitialized(t)
       \/ unlockVaultLoaded(t)
       \/ unlockVaultDecrypted(t)
       \/ SaveVaultEncrypted(t)
       \/ SaveVaultStored(t)
  \/ lockVault(1)
  \/ Tamper
  \/ RemoveItem
TamperSpec == Init /\ [][NextTamper]_vars

\* Unlocking over a stored record that was altered, and importing payloads
\* that fail for different reasons, one call at a time
NextOracle ==
  \/ NextTamper
  \/ \E t \in TaskIds :
       \/ importVaultStart(t, 1)
       \/ importVaultDecrypted(t)
OracleSpec == Init /\ [][NextOracle]_vars

(* ------------------------------- claims ------------------------------- *)
\* the stored item is a vault record that decrypt turns, under pw, into the
\* serialization of list
DecryptsTo(item, pw, list) ==
  /\ JSONparses(item)
  /\ IsVaultRecord(JSONparse(item))
  /\ LET v == JSONparse(item)
     IN  decrypt(v.data, pw, v.salt, v.iv, v.hmac)
           = {DecryptOK(JSONstringify(list))}

\* the call in slot t completes in this step (and the process did not end)
Completes(t, op) ==
  /\ tasks[t].pc # "idle"
  /\ tasks[t].op = op
  /\ tasks'[t].pc = "idle"
  /\ last'.op = op

\* the call in slot t begins in this step and suspends
Suspends(t, op) ==
  /\ tasks[t].pc = "idle"
  /\ tasks'[t].pc # "idle"
  /\ tasks'[t].op = op

\* a call of op begins and completes in this step, without suspending
CompletesAtOnce(op) ==
  /\ last'.op = op
  /\ tasks' = tasks

\* C1: mutating calls that overlap are saved in submission order: once all
\* of them have completed (vault unlocked, a non-empty master password in
\* memory), the stored record decrypts under the in-memory master password
\* to exactly the in-memory account list.
C1_NoLostUpdate ==
  (InFlight = {} /\ isUnlocked /\ ~Falsy(masterPassword))
    => DecryptsTo(storage[VAULT_KEY], masterPassword, accounts)

\* C2: in a sequential execution, whenever the vault is unlocked and no call
\* is in flight, the stored record decrypts under the in-memory master
\* password to exactly the in-memory account list.
C2_StoredMatchesMemory ==
  (InFlight = {} /\ isUnlocked)
    => DecryptsTo(storage[VAULT_KEY], masterPassword, accounts)

\* C3: with no vault record at its start, createVault(pw) completes
\* normally, leaves the vault unlocked with an empty list and pw in memory
\* and a record in storage that decrypts under pw to the empty list; and
\* an unlockVault(pw) whose password decrypts the stored record returns
\* true, unlocks, and loads the stored list.
StoredOutcomes(pw) ==
  LET item == storage[VAULT_KEY]
  IN  IF JSONparses(item) /\ IsVaultRecord(JSONparse(item))
      THEN LET v == JSONparse(item)
           IN  decrypt(v.data, pw, v.salt, v.iv, v.hmac)
      ELSE {DecryptErr("no record")}

C3_CreateThenUnlock ==
  [][\A t \in TaskIds :
       /\ (Completes(t, "createVault")
             /\ (tasks[t].pc = "initialize" => ~tasks[t].exists))
            => /\ last'.status = "return"
               /\ isUnlocked'
               /\ accounts' = <<>>
               /\ masterPassword' = tasks[t].args.masterPassword
               /\ DecryptsTo(storage'[VAULT_KEY],
                             tasks[t].args.masterPassword, <<>>)
       /\ (Completes(t, "unlockVault")
             /\ \A d \in StoredOutcomes(tasks[t].args.masterPassword) : d.ok)
            => /\ last' = Returned(Call("unlockVault", tasks[t].args), TRUE)
               /\ isUnlocked'
               /\ masterPassword' = tasks[t].args.masterPassword
               /\ \E d \in StoredOutcomes(tasks[t].args.masterPassword) :
                    accounts' = JSONparse(d.text)
    ]_vars

\* C4: with a record stored under pw and the vault locked, every step of
\* unlockVault(w), w # pw, leaves runtime state and storage unchanged: the
\* vault stays locked, no master password is held, the list is empty and
\* getAccounts fails with the Locked error; the call returns false.
UnlockStep(t) ==
  /\ tasks'[t] # tasks[t]
  /\ last'.op # "restart"
  /\ IF tasks[t].pc = "idle" THEN tasks'[t].op = "unlockVault"
     ELSE tasks[t].op = "unlockVault"
UnlockPassword(t) ==
  IF tasks[t].pc = "idle" THEN tasks'[t].args.masterPassword
  ELSE tasks[t].args.masterPassword

C4_WrongPasswordUnlock ==
  [][\A t \in TaskIds :
       (/\ UnlockStep(t)
        /\ ~isUnlocked
        /\ \E pw \in Passwords :
             /\ pw # UnlockPassword(t)
             /\ \A d \in StoredOutcomes(pw) : d.ok)
         => /\ UNCHANGED <<masterPassword, accounts, isUnlocked, storage>>
            /\ ~isUnlocked'
            /\ masterPassword' = NULL
            /\ accounts' = <<>>
            /\ getAccountsResult'.status = "throw"
            /\ getAccountsResult'.value = "Vault is locked"
            /\ tasks'[t].pc = "idle"
                 => last' = Returned(Call("unlockVault", tasks[t].args), FALSE)
    ]_vars

\* C5 (as stated): unlockVault never lets an exception escape, whatever the
\* password and whatever storage holds, a missing record included.
C5_UnlockNeverThrows ==
  last.op = "unlockVault" => last.status = "return"

\* C5 (amended): unlockVault throws exactly when the item it read is absent
\* or the empty string ('Vault does not exist'), and then changes nothing;
\* for every other content of storage (malformed, tampered, encrypted under
\* another password) and every password it returns a boolean: false with the
\* runtime state unchanged, or true with the vault unlocked under that
\* password.
C5_UnlockThrowsOnlyWithoutRecord ==
  [][\A t \in TaskIds :
       Completes(t, "unlockVault")
         => IF tasks[t].pc = "getItem" /\ FalsyItem(tasks[t].vaultData)
            THEN /\ last' = Threw(Call("unlockVault", tasks[t].args),
                                  "Vault does not exist")
                 /\ UNCHANGED <<masterPassword, accounts, isUnlocked, storage>>
            ELSE /\ last'.status = "return"
                 /\ last'.value \in BOOLEAN
                 /\ ~last'.value
                      => UNCHANGED <<masterPassword, accounts, isUnlocked,
                                     storage>>
                 /\ last'.value
                      => /\ isUnlocked'
                         /\ masterPassword' = tasks[t].args.masterPassword
    ]_vars

\* unlockVault has returned false for the password the stored record was
\* encrypted under, because the record was tampered with
C5_Witness ==
  /\ last.op = "unlockVault"
  /\ last.status = "return"
  /\ last.value = FALSE
  /\ InFlight = {}
  /\ JSONparses(storage[VAULT_KEY])
  /\ IsVaultRecord(JSONparse(storage[VAULT_KEY]))
  /\ LET v == JSONparse(storage[VAULT_KEY])
     IN  base64ToUint8Array(v.data).key
           = deriveKey(last.args.masterPassword, base64ToUint8Array(v.salt))
  /\ \A d \in StoredOutcomes(last.args.masterPassword) : ~d.ok

\* C6: while the vault is not unlocked, a call of saveVault, addAccount,
\* updateAccount, deleteAccount, exportVault, importVault,
\* changeMasterPassword, getAccounts or getAccount throws before it does
\* anything, getMasterPassword returns null, and runtime state and storage
\* stay as they are.
GuardedOps == {"saveVault", "addAccount", "updateAccount", "deleteAccount",
               "exportVault", "importVault", "changeMasterPassword",
               "getAccounts", "getAccount", "getMasterPassword"}
LockedErrors == {"Vault is locked", "Vault must be unlocked to import"}

C6_LockedCallsFail ==
  [][~isUnlocked =>
       /\ \A t \in TaskIds : \A op \in GuardedOps : ~Suspends(t, op)
       /\ \A op \in GuardedOps :
            CompletesAtOnce(op)
              => /\ IF op = "getMasterPassword"
                    THEN last'.status = "return" /\ last'.value = NULL
                    ELSE last'.status = "throw" /\ last'.value \in LockedErrors
                 /\ UNCHANGED <<masterPassword, accounts, isUnlocked, storage>>
    ]_vars

\* importVault has been refused on a locked vault that has a record
C6_Witness ==
  /\ ~isUnlocked
  /\ InFlight = {}
  /\ ~IsNullItem(storage[VAULT_KEY])
  /\ last.op = "importVault"
  /\ last.status = "throw"
  /\ last.value = "Vault must be unlocked to import"

\* C7: lockVault, in any state and for any master password in memory,
\* leaves the vault locked, the list empty and no master password in
\* memory, and does not touch storage; on a locked vault it changes nothing.
C7_LockClears ==
  [][CompletesAtOnce("lockVault")
       => /\ ~isUnlocked'
          /\ accounts' = <<>>
          /\ masterPassword' = NULL
          /\ storage' = storage
          /\ ~isUnlocked => UNCHANGED <<masterPassword, accounts, isUnlocked>>
    ]_vars

\* C8: createVault finds out whether a record exists by reading storage;
\* when one exists it throws 'Vault already exists' and changes neither the
\* runtime state nor the stored record.
C8_CreateExistingFails ==
  [][\A t \in TaskIds :
       /\ Suspends(t, "createVault")
            => /\ tasks'[t].exists <=> ~IsNullItem(storage[VAULT_KEY])
               /\ UNCHANGED <<masterPassword, accounts, isUnlocked, storage>>
       /\ (/\ tasks[t].pc = "initialize"
           /\ tasks[t].op = "createVault"
           /\ ~IsNullItem(storage[VAULT_KEY])
           /\ tasks'[t] # tasks[t]
           /\ last'.op # "restart")
            => /\ tasks'[t].pc = "idle"
               /\ last' = Threw(Call("createVault", tasks[t].args),
                                "Vault already exists")
               /\ UNCHANGED <<masterPassword, accounts, isUnlocked, storage>>
    ]_vars

\* createVault has been refused on an unlocked vault that holds an account
C8_Witness ==
  /\ last.op = "createVault"
  /\ last.status = "throw"
  /\ last.value = "Vault already exists"
  /\ InFlight = {}
  /\ isUnlocked
  /\ Len(accounts) > 0
  /\ DecryptsTo(storage[VAULT_KEY], masterPassword, accounts)

\* C9: on an unlocked vault, updateAccount and deleteAccount with an id that
\* no account of the list has throw 'Account not found' at once: the list is
\* unchanged and no save begins (the stored record is not rewritten).
C9_NotFound ==
  [][isUnlocked =>
       \A op \in {"updateAccount", "deleteAccount"} :
         /\ \A t \in TaskIds :
              Suspends(t, op) => findIndex(accounts, tasks'[t].args.id) # 0
         /\ (CompletesAtOnce(op) /\ findIndex(accounts, last'.args.id) = 0)
              => /\ last'.status = "throw"
                 /\ last'.value = "Account not found"
                 /\ UNCHANGED <<masterPassword, accounts, isUnlocked, storage,
                                tasks>>
    ]_vars

\* deleteAccount has failed with 'Account not found' on an unlocked vault
\* that holds accounts
C9_Witness ==
  /\ isUnlocked
  /\ InFlight = {}
  /\ Len(accounts) > 0
  /\ DecryptsTo(storage[VAULT_KEY], masterPassword, accounts)
  /\ last.op = "deleteAccount"
  /\ last.status = "throw"
  /\ last.value = "Account not found"

\* C10: on an unlocked vault changeMasterPassword does not throw: with a
\* wrong current password it returns false and changes nothing; with the
\* right one it returns true, the in-memory password is the new one, the
\* list is unchanged, and the stored record decrypts to that list under the
\* new password and under no other.
C10_ChangePassword ==
  [][/\ (isUnlocked /\ CompletesAtOnce("changeMasterPassword"))
          => /\ last'.args.currentPassword # masterPassword
             /\ last'.status = "return"
             /\ last'.value = FALSE
             /\ UNCHANGED <<masterPassword, accounts, isUnlocked, storage>>
     /\ \A t \in TaskIds :
          /\ Suspends(t, "changeMasterPassword")
               => /\ tasks'[t].args.currentPassword = masterPassword
                  /\ masterPassword' = tasks'[t].args.newPassword
                  /\ accounts' = accounts
          /\ Completes(t, "changeMasterPassword")
               => /\ last' = Returned(Call("changeMasterPassword",
                                           tasks[t].args), TRUE)
                  /\ masterPassword' = tasks[t].args.newPassword
                  /\ accounts' = accounts
                  /\ DecryptsTo(storage'[VAULT_KEY], masterPassword', accounts')
                  /\ \A pw \in Passwords \ {masterPassword'} :
                       \A d \in decrypt(JSONparse(storage'[VAULT_KEY]).data, pw,
                                        JSONparse(storage'[VAULT_KEY]).salt,
                                        JSONparse(storage'[VAULT_KEY]).iv,
                                        JSONparse(storage'[VAULT_KEY]).hmac) :
                         ~d.ok
    ]_vars

\* C11: the biometric session follows the master password: a biometric
\* unlock that completes with a password returns one that opens the stored
\* vault record, so after a successful changeMasterPassword it never
\* returns the old master password.
C11_BiometricFollowsPassword ==
  [][\A t \in TaskIds :
       (Completes(t, "unlock") /\ last'.value # NULL)
         => \E d \in StoredOutcomes(last'.value) : d.ok
    ]_vars

\* C12: deleteVault, called in any state, leaves the vault locked with an
\* empty list and no master password in memory, and no vault record in
\* storage: initialize() returns false, no password unlocks, and createVault
\* finds no record.
C12_DeleteVault ==
  [][\A t \in TaskIds :
       Completes(t, "deleteVault")
         => /\ ~isUnlocked'
            /\ accounts' = <<>>
            /\ masterPassword' = NULL
            /\ IsNullItem(storage'[VAULT_KEY])
            /\ \A pw \in Passwords : \A d \in StoredOutcomes(pw)' : ~d.ok
    ]_vars

\* C13: a save that storage did not take is reported: when saveVault,
\* createVault, addAccount, updateAccount, deleteAccount or
\* changeMasterPassword completes without an error, the record it encrypted
\* is the record in storage.
C13_FailedSaveReported ==
  [][\A t \in TaskIds :
       \A op \in SavingOps \ {"importVault"} :
         (Completes(t, op) /\ last'.status = "return")
           => storage'[VAULT_KEY]
                = JSONstringify(EncryptedVault(
                    encrypt(tasks[t].data, tasks[t].pw, tasks[t].salt,
                            tasks[t].iv)))
    ]_vars

\* C14: at every point, a crash inside a save included, the stored vault
\* record is absent or whole: every save serializes the in-memory list of
\* its moment, the stored record changes only by a removal or by one write
\* of the complete envelope of a finished encryption of such a list, a
\* crash leaves storage as it is, and the record in storage always
\* decrypts to an account list.
C14_RecordWhole ==
  /\ [](\/ IsNullItem(storage[VAULT_KEY])
        \/ \E pw \in Passwords :
             \E d \in StoredOutcomes(pw) : d.ok /\ JSONparses(d.text))
  /\ [][/\ \A t \in TaskIds :
             (/\ tasks'[t] # tasks[t]
              /\ tasks'[t].pc = "derive"
              /\ tasks'[t].op \in SavingOps)
               => tasks'[t].data = JSONstringify(accounts')
        /\ storage'[VAULT_KEY] # storage[VAULT_KEY]
             => \/ IsNullItem(storage'[VAULT_KEY])
                \/ \E t \in TaskIds :
                     /\ tasks[t].pc = "derive"
                     /\ tasks[t].op \in SavingOps
                     /\ storage'[VAULT_KEY]
                          = JSONstringify(EncryptedVault(
                              encrypt(tasks[t].data, tasks[t].pw,
                                      tasks[t].salt, tasks[t].iv)))
        /\ (last'.op = "restart" /\ \A t \in TaskIds : tasks'[t].pc = "idle")
             => storage' = storage
       ]_vars

\* between serialization and write: the save of a second account awaits its
\* key while storage still holds the whole record of the list before it
C14_Witness ==
  \E t \in TaskIds :
    /\ tasks[t].pc = "derive"
    /\ tasks[t].op = "addAccount"
    /\ Len(accounts) = 2
    /\ tasks[t].data = JSONstringify(accounts)
    /\ DecryptsTo(storage[VAULT_KEY], masterPassword, SubSeq(accounts, 1, 1))

\* the arguments of a decrypt call that is handed the envelope e as it is
EnvelopeArgs(e, password) ==
  [encryptedData |-> e.encrypted, password |-> password, salt |-> e.salt,
   iv |-> e.iv, hmac |-> e.hmac]

\* C15: encryption round trip: decrypting the envelope encrypt(P, W)
\* returned, with the same W and the envelope's salt, iv and hmac, returns
\* exactly P, for every plaintext P (the empty string included) and every W.
C15_RoundTrip ==
  \A data \in Plaintexts, password \in Passwords :
    \A salt \in Salts, iv \in IVs :
      (/\ last.op = "decrypt"
       /\ last.args = EnvelopeArgs(encrypt(data, password, salt, iv), password))
        => /\ last.status = "return"
           /\ last.value = data

IsRestartStep == last'.op = "restart" /\ \A t \in TaskIds : tasks'[t].pc = "idle"

\* task t is a call of importVault that takes this step
ImportStep(t) ==
  /\ tasks[t].pc # "idle"
  /\ tasks[t].op = "importVault"
  /\ tasks'[t] # tasks[t]
  /\ ~IsRestartStep

\* the outcomes of the decryption a call of importVault is waiting for, and
\* whether an outcome passes lines 259-266
ImportOutcomes(t) ==
  decrypt(tasks[t].importData.encryptedData, tasks[t].args.transferPassword,
          tasks[t].importData.salt, tasks[t].importData.iv,
          tasks[t].importData.hmac)
Admissible(t, d) ==
  /\ d.ok
  /\ createChecksum(d.text) = tasks[t].importData.checksum
  /\ JSONparses(d.text)

\* a and b carry the same (issuer, name) pair
SamePair(a, b) == a.issuer = b.issuer /\ a.name = b.name

\* the payload accounts from index i0 on that match no account of accs
FreshFrom(imported, i0, accs) ==
  {k \in i0..Len(imported) :
     \A n \in 1..Len(accs) : ~SamePair(accs[n], imported[k])}
Least(S) == CHOOSE k \in S : \A m \in S : k <= m

\* what the loop of importVault has to do when it is entered at index i0 with
\* c0 accounts counted: with no unmatched account left it returns c0 and
\* leaves the list alone; otherwise it skips the matched ones and appends the
\* first unmatched one, with the payload's eight fields, to the unchanged list
LoopAdmits(t, imported, i0, c0) ==
  LET fresh == FreshFrom(imported, i0, accounts)
  IN  IF fresh = {}
      THEN /\ tasks'[t].pc = "idle"
           /\ last'.op = "importVault"
           /\ last'.status = "return"
           /\ last'.value = c0
           /\ accounts' = accounts
      ELSE /\ tasks'[t].pc = "derive"
           /\ tasks'[t].i = Least(fresh)
           /\ tasks'[t].count = c0
           /\ Len(accounts') = Len(accounts) + 1
           /\ SubSeq(accounts', 1, Len(accounts)) = accounts
           /\ PickImportFields(accounts'[Len(accounts')])
                = PickImportFields(imported[Least(fresh)])

\* C17: importVault on an unlocked vault admits exactly the payload accounts
\* whose (issuer, name) pair is that of no account in the list when the
\* account is considered; matched accounts are skipped and the accounts
\* present stay as they are; the count returned is the number of accounts
\* appended.
C17_ImportDedup ==
  [][\A t \in TaskIds : ImportStep(t) =>
       /\ (tasks[t].pc = "decrypt"
             /\ \A d \in ImportOutcomes(t) : Admissible(t, d))
            => \A d \in ImportOutcomes(t) :
                 LoopAdmits(t, JSONparse(d.text), 1, 0)
       /\ tasks[t].pc = "setItem"
            => LoopAdmits(t, tasks[t].imported, tasks[t].i + 1,
                          tasks[t].count + 1)
       /\ tasks[t].pc = "derive"
            => /\ accounts' = accounts
               /\ tasks'[t].pc = "setItem"
               /\ tasks'[t].i = tasks[t].i
               /\ tasks'[t].count = tasks[t].count
    ]_vars

\* C18: when the payload cannot be decrypted with the transfer password, or
\* the checksum of the decrypted text is not the one the payload declares,
\* importVault fails with an error and adds no account: from its call to its
\* failure the list in memory and the stored record are unchanged.
C18_FailedImportAddsNothing ==
  [][\A t \in TaskIds :
       /\ (tasks[t].pc = "idle" /\ tasks'[t].pc = "decrypt")
            => accounts' = accounts /\ storage' = storage
       /\ (/\ ImportStep(t)
           /\ tasks[t].pc = "decrypt"
           /\ \A d \in ImportOutcomes(t) :
                ~d.ok \/ createChecksum(d.text) # tasks[t].importData.checksum)
            => /\ tasks'[t].pc = "idle"
               /\ last'.op = "importVault"
               /\ last'.status = "throw"
               /\ last'.value = IMPORT_ERROR
               /\ accounts' = accounts
               /\ storage' = storage
    ]_vars

\* an import of the payload with the wrong checksum, under the password it
\* was encrypted with, has failed in a vault that holds one saved account
C18_Witness ==
  /\ InFlight = {}
  /\ last.op = "importVault"
  /\ last.status = "throw"
  /\ last.args.exportedData = "badsum"
  /\ last.args.transferPassword = "p1"
  /\ isUnlocked
  /\ Len(accounts) = 1
  /\ DecryptsTo(storage[VAULT_KEY], masterPassword, accounts)

\* the call of task t imports an export of a list with pairwise distinct
\* (issuer, name) pairs under the transfer password the export was made with
RoundTrip(t) ==
  /\ tasks[t].args.exportedData \in {"foreign", "masterkeyed"}
  /\ tasks[t].args.transferPassword
       = PayloadPassword(tasks[t].args.exportedData)

\* account a carries the eight transferred fields of b
SameFields(a, b) ==
  /\ a.name = b.name /\ a.issuer = b.issuer /\ a.secret = b.secret
  /\ a.type = b.type /\ a.algorithm = b.algorithm /\ a.digits = b.digits
  /\ a.period = b.period /\ a.counter = b.counter

\* id and timestamps of a are read from this vault's clock during the step,
\* not copied from b
AssignedAfresh(a, b) ==
  /\ a.id # b.id
  /\ a.id.ms \in now..now'
  /\ a.createdAt \in now..now'
  /\ a.updatedAt \in now..now'
  /\ a.createdAt # b.createdAt
  /\ a.updatedAt # b.updatedAt

\* C19: transfer round trip: the payload exportVault(t) returned for a list
\* with pairwise distinct (issuer, name) pairs, imported with
\* importVault(payload, t) into another unlocked, empty vault, is imported
\* without error, account after account in the order of the export, with
\* the eight transferred fields equal and id, createdAt and updatedAt
\* assigned by the importing vault; the call returns the number of exported
\* accounts.
C19_TransferRoundTrip ==
  [][\A t \in TaskIds : (ImportStep(t) /\ RoundTrip(t)) =>
       LET L == PayloadList(tasks[t].args.exportedData)
           k == Len(accounts)
           Goes(c0) ==
             IF k = Len(L)
             THEN /\ tasks'[t].pc = "idle"
                  /\ last'.op = "importVault"
                  /\ last'.status = "return"
                  /\ last'.value = Len(L)
                  /\ accounts' = accounts
             ELSE /\ tasks'[t].pc = "derive"
                  /\ tasks'[t].i = k + 1
                  /\ tasks'[t].count = c0
                  /\ Len(accounts') = k + 1
                  /\ SubSeq(accounts', 1, k) = accounts
                  /\ SameFields(accounts'[k + 1], L[k + 1])
                  /\ AssignedAfresh(accounts'[k + 1], L[k + 1])
       IN  /\ (tasks[t].pc = "decrypt" /\ accounts = <<>>) => Goes(0)
           /\ (/\ tasks[t].pc = "setItem"
               /\ tasks[t].i = k
               /\ tasks[t].count = k - 1
               /\ \A n \in 1..k : SameFields(accounts[n], L[n]))
                => Goes(k)
           /\ tasks[t].pc = "derive"
                => accounts' = accounts /\ tasks'[t].pc = "setItem"
    ]_vars

\* C20: exportVault on an unlocked vault is a pure read: its steps leave the
\* fields of the service and the stored record unchanged; the payload it
\* returns is encrypted under the transfer password whenever one is given,
\* whatever string it is, and under the master password only when none is
\* given, and declares the checksum of the serialized current list.
C20_ExportPureRead ==
  [][\A t \in TaskIds :
       /\ (/\ tasks[t].pc = "idle"
           /\ tasks'[t].pc # "idle"
           /\ tasks'[t].op = "exportVault")
            => UNCHANGED <<masterPassword, accounts, isUnlocked, storage>>
       /\ (Completes(t, "exportVault"))
            => /\ UNCHANGED <<masterPassword, accounts, isUnlocked, storage>>
               /\ last'.status = "return"
               /\ LET given == tasks[t].args.transferPassword
                      password == IF given = UNDEFINED THEN masterPassword
                                  ELSE given
                      data == JSONstringify(accounts)
                  IN  \E salt \in Salts, iv \in IVs :
                        last'.value
                          = TransferPayload(data,
                                            encrypt(data, password, salt, iv))
    ]_vars

\* C21: biometric round trip: enable(pw) whose challenge succeeds returns
\* true, and the unlock() that follows it, its challenge succeeding, returns
\* exactly pw, for every master password pw; disable() removes the enabled
\* flag and the session, also when there is none, and the unlock() that
\* follows it returns null.
C21_BiometricRoundTrip ==
  [][\A t \in TaskIds :
       /\ (Completes(t, "enable") /\ tasks[t].pc # "authenticateEnable")
            => last'.status = "return" /\ last'.value = TRUE
       /\ (/\ Completes(t, "unlock")
           /\ tasks[t].pc # "authenticateUnlock"
           /\ last.op = "enable"
           /\ last.status = "return"
           /\ last.value = TRUE)
            => last'.status = "return" /\ last'.value = last.args.masterPassword
       /\ Completes(t, "disable")
            => /\ last'.status = "return"
               /\ IsNullItem(storage'[BIOMETRIC_KEY_STORAGE])
               /\ IsNullItem(storage'[SESSION_KEY_STORAGE])
       /\ (Completes(t, "unlock") /\ last.op = "disable")
            => last'.status = "return" /\ last'.value = NULL
    ]_vars

\* C22: when the challenge of enable does not succeed, enable returns false
\* without throwing and writes nothing: the enabled flag and the session
\* item are as they were when enable was called.
C22_FailedChallengeStoresNothing ==
  [][\A t \in TaskIds :
       /\ (tasks[t].pc = "idle" /\ tasks'[t].pc = "authenticateEnable")
            => storage' = storage
       /\ (Completes(t, "enable") /\ tasks[t].pc = "authenticateEnable")
            => /\ last'.status = "return"
               /\ last'.value = FALSE
               /\ storage' = storage
    ]_vars

\* enable has returned false while biometric unlock was enabled: the flag
\* and a session that decrypts under its key are still stored
C22_Witness ==
  /\ InFlight = {}
  /\ last.op = "enable"
  /\ last.status = "return"
  /\ last.value = FALSE
  /\ isEnabled
  /\ JSONparses(getItem(SESSION_KEY_STORAGE))
  /\ LET v == JSONparse(getItem(SESSION_KEY_STORAGE))
     IN  \E d \in decrypt(v.encrypted, v.sessionKey, v.salt, v.iv, v.hmac) :
           d.ok

\* task t is a call of unlock that takes this step
BiometricUnlockStep(t) ==
  /\ tasks[t].pc # "idle"
  /\ tasks[t].op = "unlock"
  /\ tasks'[t] # tasks[t]
  /\ ~IsRestartStep

\* C23: unlock never throws, and returns a password only from the
\* decryption it reaches after, within the same call, the enabled flag was
\* read as set and the challenge succeeded: with the flag not set, the
\* challenge rejected, no session stored, a malformed session, or a session
\* that fails the integrity or the decryption check, it returns null.
C23_UnlockDegrades ==
  [][\A t \in TaskIds : BiometricUnlockStep(t) =>
       /\ tasks'[t].pc = "idle"
            => last'.op = "unlock" /\ last'.status = "return"
       /\ (tasks[t].pc = "isEnabled" /\ ~tasks[t].enabled)
            => tasks'[t].pc = "idle" /\ last'.value = NULL
       /\ (tasks[t].pc = "isEnabled" /\ tasks[t].enabled)
            => tasks'[t].pc = "authenticateUnlock"
       /\ tasks[t].pc = "authenticateUnlock"
            => \/ tasks'[t].pc = "idle" /\ last'.value = NULL
               \/ tasks'[t].pc = "getSession"
       /\ (/\ tasks[t].pc = "getSession"
           /\ \/ FalsyItem(tasks[t].sessionData)
              \/ ~JSONparses(tasks[t].sessionData)
              \/ ~IsSessionRecord(JSONparse(tasks[t].sessionData)))
            => tasks'[t].pc = "idle" /\ last'.value = NULL
       /\ (/\ tasks[t].pc = "decryptSession"
           /\ \A d \in decrypt(tasks[t].session.encrypted,
                               tasks[t].session.sessionKey,
                               tasks[t].session.salt, tasks[t].session.iv,
                               tasks[t].session.hmac) : ~d.ok)
            => tasks'[t].pc = "idle" /\ last'.value = NULL
       /\ (tasks'[t].pc = "idle" /\ last'.value # NULL)
            => tasks[t].pc = "decryptSession"
    ]_vars

\* a call of unlock has read the flag as set, passed its challenge and read
\* a session whose hmac was replaced: its decryption is about to fail
C23_Witness ==
  \E t \in TaskIds :
    /\ tasks[t].pc = "decryptSession"
    /\ tasks[t].op = "unlock"
    /\ tasks[t].session.hmac
         = HmacSHA256(base64ToUint8Array(tasks[t].session.encrypted),
                      deriveKey("forged", 0))
    /\ \A d \in decrypt(tasks[t].session.encrypted,
                        tasks[t].session.sessionKey, tasks[t].session.salt,
                        tasks[t].session.iv, tasks[t].session.hmac) : ~d.ok

\* the session item decrypts, under the key stored with it, to pw
SessionDecryptsTo(item, pw) ==
  /\ JSONparses(item)
  /\ IsSessionRecord(JSONparse(item))
  /\ LET v == JSONparse(item)
     IN  \E d \in decrypt(v.encrypted, v.sessionKey, v.salt, v.iv, v.hmac) :
           d.ok /\ d.text = Str(pw)

\* C24: updatePassword(newPassword) writes nothing when biometric unlock is
\* not enabled; when it is enabled, the call returns true with the flag set
\* and a session that decrypts to newPassword, or false with no flag stored:
\* it never returns leaving the flag set over a session of the old password.
C24_UpdatePassword ==
  [][\A t \in TaskIds :
       /\ (tasks[t].pc = "idle" /\ tasks'[t].pc = "isEnabled")
            => storage' = storage
       /\ (/\ tasks[t].pc = "isEnabled"
           /\ tasks[t].op = "updatePassword"
           /\ ~tasks[t].enabled
           /\ tasks'[t] # tasks[t]
           /\ ~IsRestartStep)
            => /\ tasks'[t].pc = "idle"
               /\ last'.op = "updatePassword"
               /\ last'.status = "return"
               /\ storage' = storage
       /\ (Completes(t, "updatePassword") /\ tasks[t].pc # "isEnabled")
            => /\ last'.status = "return"
               /\ IF last'.value
                  THEN isEnabled' /\ SessionDecryptsTo(storage'[SESSION_KEY_STORAGE],
                                                   tasks[t].args.newPassword)
                  ELSE IsNullItem(storage'[BIOMETRIC_KEY_STORAGE])
    ]_vars

\* the ids of a list are pairwise different
UniqueIds(list) ==
  \A i, j \in 1..Len(list) : list[i].id = list[j].id => i = j

\* every list the stored record decrypts to, under any password, has
\* pairwise different ids
StoredUniqueIds ==
  \A pw \in Passwords :
    \A d \in StoredOutcomes(pw) :
      (d.ok /\ JSONparses(d.text)) => UniqueIds(JSONparse(d.text))

\* an account was pushed whose generated id (clock and Math.random) repeats
\* an id of the list
GeneratedCollision ==
  /\ Len(accounts') = Len(accounts) + 1
  /\ SubSeq(accounts', 1, Len(accounts)) = accounts
  /\ \E i \in 1..Len(accounts) : accounts[i].id = accounts'[Len(accounts')].id

\* C25: account ids are unique within a vault, in memory and in the stored
\* list: no step of addAccount, addManual, addFromURI, updateAccount (with
\* any partial), deleteAccount, importVault, lockVault or unlockVault leads
\* from lists with pairwise different ids to a list with a repeated id,
\* unless two generated ids coincide.
C25_UniqueIds ==
  [][(UniqueIds(accounts) /\ StoredUniqueIds /\ ~GeneratedCollision)
       => (UniqueIds(accounts') /\ StoredUniqueIds')]_vars

\* the fields only the vault assigns
AssignedFields == {"id", "createdAt", "updatedAt"}

\* C26: updateAccount(id, partial), for every partial, also one that
\* carries id, createdAt or updatedAt, keeps the account's id and createdAt,
\* sets updatedAt to the time of the update, replaces exactly the other
\* fields the partial names and leaves the other accounts and the order
\* unchanged; addAccount appends an account whose id and timestamps are the
\* vault's own and whose other fields are the caller's.
C26_UpdateFrame ==
  [][\A t \in TaskIds :
       /\ Suspends(t, "updateAccount")
            => LET updates == tasks'[t].args.updates
                   index == findIndex(accounts, tasks'[t].args.id)
               IN  /\ Len(accounts') = Len(accounts)
                   /\ \A i \in 1..Len(accounts) :
                        i # index => accounts'[i] = accounts[i]
                   /\ accounts'[index].id = accounts[index].id
                   /\ accounts'[index].createdAt = accounts[index].createdAt
                   /\ accounts'[index].updatedAt = now'
                   /\ \A k \in DOMAIN accounts[index] \ AssignedFields :
                        accounts'[index][k] =
                          IF k \in DOMAIN updates THEN updates[k]
                          ELSE accounts[index][k]
       /\ Suspends(t, "addAccount")
            => LET account == tasks'[t].args.account
                   new == accounts'[Len(accounts')]
               IN  /\ accounts' = Append(accounts, new)
                   /\ new.id.ms \in now..now'
                   /\ new.createdAt \in now..now'
                   /\ new.updatedAt = now'
                   /\ \A k \in DOMAIN account \ AssignedFields :
                        new[k] = account[k]
    ]_vars

\* C27: every account in the vault has a secret that is non-empty, valid
\* Base32 and normalized (upper case, no whitespace), whichever way it
\* entered: addManual, addFromURI, VaultService.addAccount, updateAccount,
\* importVault.
C27_SecretsValid ==
  \A i \in 1..Len(accounts) :
    /\ accounts[i].secret # ""
    /\ CleanSecret(accounts[i].secret) = accounts[i].secret
    /\ Base32Regex(accounts[i].secret)

\* C28: incrementHOTPCounter(id) on an unlocked vault raises the counter of
\* the HOTP account by exactly 1 and leaves every other account as it was;
\* no step lowers a counter or raises it by more than 1; once no call is in
\* flight the stored list is the in-memory list, so n calls that overlap
\* leave the stored counter n higher; with an absent id or a TOTP account
\* the call throws and changes neither memory nor storage.
C28_CounterByOne ==
  [][/\ \A t \in TaskIds :
          Suspends(t, "incrementHOTPCounter")
            => LET index == findIndex(accounts, tasks'[t].args.id)
               IN  /\ accounts[index].type = "hotp"
                   /\ accounts'[index].counter = accounts[index].counter + 1
                   /\ \A i \in 1..Len(accounts) :
                        i # index => accounts'[i] = accounts[i]
     /\ \A i \in 1..Len(accounts) :
          /\ i <= Len(accounts')
          /\ accounts'[i].counter \in {accounts[i].counter,
                                       accounts[i].counter + 1}
     /\ (/\ tasks' = tasks
         /\ last'.op = "incrementHOTPCounter"
         /\ last'.status = "throw")
          => (accounts' = accounts /\ storage' = storage)
     /\ (InFlight # {} /\ \A t \in TaskIds : tasks'[t].pc = "idle")
          => DecryptsTo(storage'[VAULT_KEY], masterPassword', accounts')
    ]_vars

\* pw opens the stored vault record
OpensStoredVault(pw) == \E d \in StoredOutcomes(pw) : d.ok

\* C29: storage alone never suffices to recover the master password: no
\* item holds, in clear, a password that opens the stored vault record, and
\* no item holds an encryption of such a password together with the key
\* that decrypts it.
C29_PasswordNotRecoverable ==
  \A pw \in Passwords :
    OpensStoredVault(pw)
      => /\ \A k \in StorageKeys : storage[k] # Str(pw)
         /\ ~SessionDecryptsTo(storage[SESSION_KEY_STORAGE], pw)

\* C30: an unlocked vault that is left without user activity is eventually
\* locked: in every behaviour, where the user issues finitely many calls,
\* an unlocked vault is locked at some later time.
C30_AutoLock == isUnlocked ~> ~isUnlocked

\* C31: failure causes are not distinguishable to the caller. An unlockVault
\* that read a vault record and does not unlock returns false and leaves
\* runtime state and storage as they were, whether the HMAC did not match,
\* the cipher failed or the plaintext did not parse; an importVault on an
\* unlocked vault that fails throws one and the same error, whether the
\* payload is malformed, the transfer password is wrong, the envelope was
\* altered or the checksum does not match.
C31_FailuresAlike ==
  [][\A t \in TaskIds :
       /\ (Completes(t, "unlockVault") /\ tasks[t].pc = "derive")
            => /\ last'.status = "return"
               /\ last'.value \in BOOLEAN
               /\ ~last'.value
                    => (runtime' = runtime /\ storage' = storage)
       /\ (Completes(t, "importVault") /\ tasks[t].pc = "decrypt"
             /\ last'.status = "throw")
            => last'.value = IMPORT_ERROR
       /\ (/\ InFlight = {}
           /\ tasks' = tasks
           /\ storage' = storage
           /\ isUnlocked
           /\ last'.op = "importVault"
           /\ last'.status = "throw")
            => last'.value = IMPORT_ERROR
    ]_vars

\* an unlockVault has returned false over a record whose HMAC matches and
\* whose plaintext may come out as text that does not parse
C31_Witness ==
  /\ InFlight = {}
  /\ last.op = "unlockVault"
  /\ last.status = "return"
  /\ last.value = FALSE
  /\ \E d \in StoredOutcomes(last.args.masterPassword) :
       d.ok /\ ~JSONparses(d.text)

\* C32: a lock is never undone by an unlock that began earlier: lockVault
\* leaves the vault locked with no accounts and no master password in
\* memory, and as long as lockVault is the call that completed last (no
\* unlockVault or createVault has started since) every step leaves it so.
C32_LockHolds ==
  [][(last.op = "lockVault" \/ last'.op = "lockVault")
       => (~isUnlocked' /\ accounts' = <<>> /\ masterPassword' = NULL)]_vars

\* C33: after deleteVault has completed no vault record reappears in
\* storage unless createVault is called: while deleteVault is the call that
\* completed last and no record is stored, no step stores one.
C33_DeletedStaysDeleted ==
  [][(last.op = "deleteVault" /\ IsNullItem(storage[VAULT_KEY]))
       => IsNullItem(storage'[VAULT_KEY])]_vars

\* C34: the in-memory part of addAccount, updateAccount and deleteAccount
\* runs without suspension: the step that starts the call appends the new
\* account at the end, changes the one account found, or removes it, and
\* no continuation of a pending call changes the list; so calls that
\* overlap leave every change in memory exactly once and in call order,
\* whatever the order in which their saves finish.
C34_MemoryInCallOrder ==
  [][\A t \in TaskIds :
       /\ Suspends(t, "addAccount")
            => accounts' = Append(accounts, tasks'[t].newAccount)
       /\ Suspends(t, "updateAccount")
            => /\ Len(accounts') = Len(accounts)
               /\ \A i \in 1..Len(accounts) :
                    i # findIndex(accounts, tasks'[t].args.id)
                      => accounts'[i] = accounts[i]
       /\ Suspends(t, "deleteAccount")
            => accounts' = splice(accounts,
                                  findIndex(accounts, tasks'[t].args.id))
       /\ (tasks[t].pc # "idle" /\ tasks'[t] # tasks[t])
            => accounts' = accounts
    ]_vars

\* two addAccount calls overlapped and the save of the second finished
\* first: both accounts are in memory, in call order, the stored list holds
\* the first only
C34_Witness ==
  /\ InFlight = {}
  /\ isUnlocked
  /\ Len(accounts) = 2
  /\ accounts[1] # accounts[2]
  /\ last.op = "addAccount"
  /\ last.status = "return"
  /\ last.value = accounts[1]
  /\ DecryptsTo(storage[VAULT_KEY], masterPassword, <<accounts[1]>>)

\* C35: in every reachable state the vault is unlocked exactly when a
\* master password is held in memory, and when it is locked the master
\* password is null and the in-memory account list is empty.
C35_RuntimeInvariant ==
  /\ isUnlocked <=> masterPassword # NULL
  /\ ~isUnlocked => (masterPassword = NULL /\ accounts = <<>>)

\* the calls of C36
RollbackOps == {"createVault", "addAccount", "updateAccount", "deleteAccount",
                "changeMasterPassword"}

\* C36: a failed save is not rolled back. When the save of createVault,
\* addAccount, updateAccount, deleteAccount or changeMasterPassword fails,
\* the call throws, and the failing step changes neither the runtime state
\* nor storage: unless the vault was locked meanwhile, memory still holds
\* the list that was to be saved and the password it was to be saved
\* under, and storage the record it held before. A createVault whose save
\* is rejected at once leaves the vault unlocked with its password and an
\* empty list in memory.
C36_NoRollback ==
  [][\A t \in TaskIds :
       /\ (/\ tasks[t].pc = "derive"
           /\ tasks[t].op \in RollbackOps
           /\ tasks'[t].pc = "idle")
            => /\ last'.op = tasks[t].op
               /\ last'.status = "throw"
               /\ runtime' = runtime
               /\ storage' = storage
               /\ isUnlocked => /\ accounts' = JSONparse(tasks[t].data)
                                /\ masterPassword' = tasks[t].pw
       /\ (/\ Completes(t, "createVault")
           /\ tasks[t].pc = "initialize"
           /\ ~tasks[t].exists)
            => /\ last'.status = "throw"
               /\ isUnlocked'
               /\ masterPassword' = tasks[t].args.masterPassword
               /\ accounts' = <<>>
               /\ storage' = storage
    ]_vars

\* the save of an addAccount has failed: the call threw, the new account is
\* in memory, the stored record does not hold it
C36_Witness ==
  /\ InFlight = {}
  /\ last.op = "addAccount"
  /\ last.status = "throw"
  /\ last.value = "QuotaExceededError"
  /\ isUnlocked
  /\ Len(accounts) > 0
  /\ accounts[Len(accounts)].name = last.args.account.name
  /\ DecryptsTo(storage[VAULT_KEY], masterPassword,
                SubSeq(accounts, 1, Len(accounts) - 1))

\* the importVault in slot t fails in this step, while it admits an account
FailedAdmission(t) ==
  /\ tasks[t].pc \in {"derive", "setItem"}
  /\ tasks[t].op = "importVault"
  /\ tasks'[t].pc = "idle"
  /\ last'.op = "importVault"
  /\ last'.status = "throw"

\* the number of accounts the import in slot t has admitted and saved
AdmittedBefore(t) ==
  IF tasks[t].pc = "setItem" THEN tasks[t].count + 1 ELSE tasks[t].count

\* the list its last completed save has stored: the list serialized last,
\* without its last account when the save of that one is what fails
SavedList(t) ==
  LET list == JSONparse(tasks[t].data)
  IN  IF tasks[t].pc = "setItem" THEN list
      ELSE SubSeq(list, 1, Len(list) - 1)

IsPrefix(a, b) == Len(a) <= Len(b) /\ SubSeq(b, 1, Len(a)) = a

\* C37 as stated: when admitting the k-th new account fails, because its
\* save fails or because the vault was locked while the import was in
\* flight, the call ends with the generic import error, and the accounts
\* admitted before it are in the in-memory list and in the stored record.
C37_AdmittedStay ==
  [][\A t \in TaskIds :
       (FailedAdmission(t) /\ AdmittedBefore(t) > 0)
         => /\ last'.value = IMPORT_ERROR
            /\ DecryptsTo(storage'[VAULT_KEY], tasks[t].pw, SavedList(t))
            /\ IsPrefix(SavedList(t), accounts')
    ]_vars

\* C37, amended: when admitting the k-th new account fails, the call ends
\* with the generic import error and the accounts admitted before it are
\* in the stored record; they are in the in-memory list as well unless the
\* vault was locked meanwhile, in which case lockVault has emptied the list.
C37_AdmittedStayStored ==
  [][\A t \in TaskIds :
       (FailedAdmission(t) /\ AdmittedBefore(t) > 0)
         => /\ last'.value = IMPORT_ERROR
            /\ DecryptsTo(storage'[VAULT_KEY], tasks[t].pw, SavedList(t))
            /\ IF isUnlocked' THEN IsPrefix(SavedList(t), accounts')
               ELSE accounts' = <<>>
    ]_vars

\* an import has admitted and saved its first account, the vault was locked
\* meanwhile, and the payload holds a further account: admitting it fails
C37_Witness ==
  \E t \in TaskIds :
    /\ tasks[t].pc = "setItem"
    /\ tasks[t].op = "importVault"
    /\ tasks[t].count = 0
    /\ tasks[t].i < Len(tasks[t].imported)
    /\ ~isUnlocked
    /\ DecryptsTo(storage[VAULT_KEY], tasks[t].pw, JSONparse(tasks[t].data))

OnlyIvDiffers(e, password) ==
  /\ last.op = "decrypt"
  /\ last.args.encryptedData = e.encrypted
  /\ last.args.salt = e.salt
  /\ last.args.hmac = e.hmac
  /\ last.args.password = password
  /\ base64Valid(last.args.iv)
  /\ last.args.iv # e.iv

====
